---- MODULE Spec2Model ----
(***************************************************************************)
(* AudioScribe: segmentation, resumable transcription and series merge.    *)
(*                                                                         *)
(* File names and file contents are sequences of one-character strings, so *)
(* that suffix stripping, glob matching and the regular expressions of the *)
(* merge are computed character by character, as the Python code does.     *)
(***************************************************************************)
EXTENDS Integers, Sequences, FiniteSets, TLC

VARIABLES
    orig,       \* data/original : file name -> byte size
    splits,     \* data/splits   : file name -> byte size
    trans,      \* data/transcripts : file name -> content
    pc,         \* position of the running operation
    batch,      \* main: original_files, in iterdir order
    fi,         \* main: index of the current source file in batch
    segs,       \* process_file: split_files being iterated
    si,         \* process_file: index of the current segment in segs
    calls,      \* external capabilities invoked by the last step, counted
    log,        \* what the current run reached, in order (observation only)
    runs,       \* number of executions of main started so far
    ret         \* arguments and outcome of the last operation applied

vars == <<orig, splits, trans, pc, batch, fi, segs, si, calls, log, runs, ret>>

(***************************************************************************)
(* Bounds of the model.                                                    *)
(***************************************************************************)
MaxRuns == 2        \* executions of main in one behaviour
MaxSegs == 2        \* segments the segmenter produces for one source
MaxDirFiles == 3    \* files in an arbitrary transcript directory
MaxRetries == 3     \* largest retry budget tried on transcribe_file

(***************************************************************************)
(* Characters and strings.                                                 *)
(***************************************************************************)
Digits == {"0", "1", "2", "3", "4", "5", "6", "7", "8", "9"}

DigitVal(c) ==
    CASE c = "0" -> 0 [] c = "1" -> 1 [] c = "2" -> 2 [] c = "3" -> 3
      [] c = "4" -> 4 [] c = "5" -> 5 [] c = "6" -> 6 [] c = "7" -> 7
      [] c = "8" -> 8 [] c = "9" -> 9

\* Unicode code point of the characters that occur in file names; Python
\* compares str values code point by code point.
CodePoint(c) ==
    CASE c = "." -> 46 [] c \in Digits -> 48 + DigitVal(c)
      [] c = "M" -> 77 [] c = "P" -> 80 [] c = "_" -> 95
      [] c = "a" -> 97 [] c = "b" -> 98 [] c = "c" -> 99 [] c = "e" -> 101
      [] c = "j" -> 106 [] c = "l" -> 108 [] c = "m" -> 109 [] c = "n" -> 110
      [] c = "o" -> 111 [] c = "p" -> 112 [] c = "r" -> 114 [] c = "s" -> 115
      [] c = "t" -> 116 [] c = "v" -> 118 [] c = "w" -> 119 [] c = "x" -> 120
      [] OTHER -> 0

StartsWith(s, p) == Len(s) >= Len(p) /\ SubSeq(s, 1, Len(p)) = p

EndsWith(s, p) == Len(s) >= Len(p) /\ SubSeq(s, Len(s) - Len(p) + 1, Len(s)) = p

\* str.rfind(c), 1-based; 0 when c does not occur
RFind(s, c) ==
    LET hits == {i \in 1..Len(s) : s[i] = c}
    IN  IF hits = {} THEN 0 ELSE CHOOSE i \in hits : \A j \in hits : j <= i

\* s < t for Python str
RECURSIVE StrLess(_, _)
StrLess(s, t) ==
    IF t = <<>> THEN FALSE
    ELSE IF s = <<>> THEN TRUE
    ELSE IF Head(s) = Head(t) THEN StrLess(Tail(s), Tail(t))
    ELSE CodePoint(Head(s)) < CodePoint(Head(t))

\* number of leading decimal digits of s
RECURSIVE LeadingDigits(_)
LeadingDigits(s) ==
    IF s # <<>> /\ Head(s) \in Digits THEN 1 + LeadingDigits(Tail(s)) ELSE 0

\* int(s) for a string of decimal digits
RECURSIVE ParseInt(_)
ParseInt(s) ==
    IF s = <<>> THEN 0
    ELSE 10 * ParseInt(SubSeq(s, 1, Len(s) - 1)) + DigitVal(s[Len(s)])

\* all enumerations (orders without repetition) of a finite set
Perms(S) ==
    LET n == Cardinality(S)
    IN  {e \in [1..n -> S] : \A i, j \in 1..n : i # j => e[i] # e[j]}

\* sorted(e, key=...) with key a function on the elements; Python's sort is
\* stable, so elements of equal key keep the order they have in e
RECURSIVE InsertByKey(_, _, _)
InsertByKey(sorted, x, key) ==
    IF sorted = <<>> THEN <<x>>
    ELSE IF key[x] < key[Head(sorted)] THEN <<x>> \o sorted
    ELSE <<Head(sorted)>> \o InsertByKey(Tail(sorted), x, key)

RECURSIVE StableSort(_, _)
StableSort(e, key) ==
    IF e = <<>> THEN <<>>
    ELSE InsertByKey(StableSort(SubSeq(e, 1, Len(e) - 1), key), e[Len(e)], key)

PART == <<"p", "a", "r", "t">>
UPART == <<"_">> \o PART
DOT_TXT == <<".", "t", "x", "t">>
DOT_JSON == <<".", "j", "s", "o", "n">>
DOT_CLEAN_TXT == <<".", "c", "l", "e", "a", "n">> \o DOT_TXT
DOT_MP3 == <<".", "m", "p", "3">>
DOT_WAV == <<".", "w", "a", "v">>

(***************************************************************************)
(* pathlib and the base-name rule.                                         *)
(***************************************************************************)
\* PurePath.suffix: the last dot and what follows it, unless the dot is the
\* first or the last character of the name
Suffix(name) ==
    LET j == RFind(name, ".")
    IN  IF 1 < j /\ j < Len(name) THEN SubSeq(name, j, Len(name)) ELSE <<>>

\* PurePath.stem
Stem(name) ==
    LET j == RFind(name, ".")
    IN  IF 1 < j /\ j < Len(name) THEN SubSeq(name, 1, j - 1) ELSE name

\* str.lower() on the characters of an extension
LowerChar(c) ==
    CASE c = "M" -> "m" [] c = "P" -> "p" [] c = "A" -> "a"
      [] c = "W" -> "w" [] c = "V" -> "v" [] OTHER -> c

Lower(s) == [i \in 1..Len(s) |-> LowerChar(s[i])]

\* (variant: everything from the first period on is taken off)
GetBaseFilenameFirstDot(name) ==
    LET hits == {i \in 1..Len(name) : name[i] = "."}
    IN  IF hits = {} THEN name
        ELSE SubSeq(name, 1, (CHOOSE i \in hits : \A j \in hits : i <= j) - 1)

\* TranscriptManager._get_base_filename
GetBaseFilename(name) ==
    LET actual_extension == Suffix(name)
    IN  IF actual_extension # <<>>
        THEN SubSeq(name, 1, Len(name) - Len(actual_extension))
        ELSE name

(***************************************************************************)
(* A directory is a function from the names of its files to what they      *)
(* hold (content in the transcript directory, byte size elsewhere).  The   *)
(* size of a transcript file is the length of its content.                 *)
(***************************************************************************)
EmptyDir == [n \in {} |-> <<>>]

Exists(dir, name) == name \in DOMAIN dir

StSize(dir, name) == Len(dir[name])

WriteFile(dir, name, content) ==
    [n \in DOMAIN dir \cup {name} |-> IF n = name THEN content ELSE dir[n]]

Unlink(dir, names) == [n \in DOMAIN dir \ names |-> dir[n]]

\* TranscriptManager.check_existing_transcripts
\* (variant: existence alone, sizes not looked at)
CheckExistingNoSize(dir, file_name) ==
    LET base_name == GetBaseFilename(file_name)
    IN  Exists(dir, base_name \o DOT_TXT) /\ Exists(dir, base_name \o DOT_JSON)

CheckExistingTranscripts(dir, file_name) ==
    LET base_name == GetBaseFilename(file_name)
        txt_path  == base_name \o DOT_TXT
        json_path == base_name \o DOT_JSON
    IN  IF Exists(dir, txt_path) /\ Exists(dir, json_path)
        THEN StSize(dir, txt_path) > 0 /\ StSize(dir, json_path) > 0
        ELSE FALSE


(***************************************************************************)
(* TranscriptManager.merge_transcripts                                     *)
(***************************************************************************)
IsSpace(c) == c \in {" ", "\n", "\t"}

RECURSIVE LStrip(_)
LStrip(s) == IF s # <<>> /\ IsSpace(Head(s)) THEN LStrip(Tail(s)) ELSE s

RECURSIVE RStrip(_)
RStrip(s) ==
    IF s # <<>> /\ IsSpace(s[Len(s)]) THEN RStrip(SubSeq(s, 1, Len(s) - 1)) ELSE s

\* str.strip()
Strip(s) == RStrip(LStrip(s))

\* the separator of the merged document
SEP == <<"\n", "\n">>

\* sep.join(parts)
RECURSIVE Join(_, _)
Join(sep, parts) ==
    IF parts = <<>> THEN <<>>
    ELSE IF Len(parts) = 1 THEN parts[1]
    ELSE parts[1] \o sep \o Join(sep, Tail(parts))

\* get_part_number: re.search(r"part(\d+)", filename), the leftmost match
\* (variant: a name without a match sorts after every part)
GetPartNumberUnparsedLast(filename) ==
    LET hits == {i \in 1..Len(filename) :
                    /\ i + 4 <= Len(filename)
                    /\ SubSeq(filename, i, i + 3) = PART
                    /\ filename[i + 4] \in Digits}
    IN  IF hits = {} THEN 1000000
        ELSE LET i    == CHOOSE h \in hits : \A g \in hits : h <= g
                 rest == SubSeq(filename, i + 4, Len(filename))
             IN  ParseInt(SubSeq(rest, 1, LeadingDigits(rest)))

GetPartNumber(filename) ==
    LET hits == {i \in 1..Len(filename) :
                    /\ i + 4 <= Len(filename)
                    /\ SubSeq(filename, i, i + 3) = PART
                    /\ filename[i + 4] \in Digits}
    IN  IF hits = {} THEN -1
        ELSE LET i    == CHOOSE h \in hits : \A g \in hits : h <= g
                 rest == SubSeq(filename, i + 4, Len(filename))
             IN  ParseInt(SubSeq(rest, 1, LeadingDigits(rest)))

\* t matches _part\d+\.(clean\.)?txt from its first to its last character
MatchesPartSuffix(t) ==
    /\ StartsWith(t, UPART)
    /\ LET r == SubSeq(t, Len(UPART) + 1, Len(t))
           d == LeadingDigits(r)
       IN  d >= 1 /\ SubSeq(r, d + 1, Len(r)) \in {DOT_TXT, DOT_CLEAN_TXT}

\* get_series_name: re.sub(r"_part\d+\.(clean\.)?txt$", "", filename)
GetSeriesName(filename) ==
    LET hits == {i \in 1..Len(filename) :
                    MatchesPartSuffix(SubSeq(filename, i, Len(filename)))}
    IN  IF hits = {} THEN filename
        ELSE SubSeq(filename, 1, (CHOOSE h \in hits : \A g \in hits : h <= g) - 1)

\* glob("*part*.txt")
GlobAnyPartTxt(name) ==
    /\ EndsWith(name, DOT_TXT)
    /\ \E i \in 1..Len(name) :
          i + 3 <= Len(name) - Len(DOT_TXT) /\ SubSeq(name, i, i + 3) = PART

\* glob(prefix + "*" + suffix), prefix and suffix free of wildcard characters
GlobMatch(name, prefix, suffix) ==
    /\ Len(name) >= Len(prefix) + Len(suffix)
    /\ StartsWith(name, prefix)
    /\ EndsWith(name, suffix)

\* sorted(series_names)
RECURSIVE SortedNames(_)
SortedNames(S) ==
    IF S = {} THEN <<>>
    ELSE LET m == CHOOSE x \in S : \A y \in S \ {x} : StrLess(x, y)
         IN  <<m>> \o SortedNames(S \ {m})

NonEmpty(content) == content # <<>>

\* the files one variant of one series is merged from: the glob of lines
\* 118-127 (raw, names ending in .clean.txt filtered out) or 154-159 (cleaned)
\* (variant: the raw glob without the .clean.txt filter)
SelectedFilesNoFilter(dir, series, clean) ==
    {n \in DOMAIN dir : GlobMatch(n, series \o UPART, DOT_TXT)}

SelectedFiles(dir, series, clean) ==
    IF clean
    THEN {n \in DOMAIN dir : GlobMatch(n, series \o UPART, DOT_CLEAN_TXT)}
    ELSE {n \in DOMAIN dir :
            GlobMatch(n, series \o UPART, DOT_TXT) /\ ~EndsWith(n, DOT_CLEAN_TXT)}

\* files = sorted(glob(...), key=get_part_number) for the enumeration e that
\* the directory listing happens to produce
SortedFiles(e) ==
    StableSort(e, [n \in {e[i] : i \in 1..Len(e)} |-> GetPartNumber(n)])

\* lines 131-151 and 163-183: read, strip, drop what is empty, join, write
\* (variant: empty contents kept as paragraphs)
MergedContentKeepEmpty(dir, files) ==
    [i \in 1..Len(files) |-> Strip(dir[files[i]])]

MergedContent(dir, files) ==
    SelectSeq([i \in 1..Len(files) |-> Strip(dir[files[i]])], NonEmpty)

\* (variant: the merged file is written whenever files were selected)
MergeVariantAlwaysWrite(dir, series, clean) ==
    LET selected    == SelectedFiles(dir, series, clean)
        output_file == series \o (IF clean THEN DOT_CLEAN_TXT ELSE DOT_TXT)
    IN  IF selected = {} THEN {dir}
        ELSE {WriteFile(dir, output_file, Join(SEP, MergedContent(dir, SortedFiles(e))))
              : e \in Perms(selected)}

\* one variant of one series; the set of directories that can result, one
\* for each order in which the glob may list the selected files
MergeVariant(dir, series, clean) ==
    LET selected    == SelectedFiles(dir, series, clean)
        output_file == series \o (IF clean THEN DOT_CLEAN_TXT ELSE DOT_TXT)
    IN  IF selected = {} THEN {dir}
        ELSE {LET merged_content == MergedContent(dir, SortedFiles(e))
              IN  IF merged_content # <<>>
                  THEN WriteFile(dir, output_file, Join(SEP, merged_content))
                  ELSE dir
              : e \in Perms(selected)}

\* the body of "for series in sorted(series_names)"
RECURSIVE MergeSeries(_, _)
MergeSeries(dirs, series_list) ==
    IF series_list = <<>> THEN dirs
    ELSE MergeSeries(
            UNION {UNION {MergeVariant(d1, Head(series_list), TRUE)
                          : d1 \in MergeVariant(d, Head(series_list), FALSE)}
                   : d \in dirs},
            Tail(series_list))

\* series_names of lines 100-107
SeriesNames(dir) ==
    {GetSeriesName(n) : n \in {f \in DOMAIN dir : GlobAnyPartTxt(f)}} \ {<<>>}

\* merge_transcripts: the directories it can leave behind
MergeTranscripts(dir) ==
    IF SeriesNames(dir) = {} THEN {dir}
    ELSE MergeSeries({dir}, SortedNames(SeriesNames(dir)))


(***************************************************************************)
(* SpecDir: the transcript manager applied to an arbitrary transcript      *)
(* directory.  Init draws the directory from DirNames; every file holds    *)
(* either text that names the file (wrapped in white space), white space   *)
(* only, or nothing.                                                       *)
(***************************************************************************)
NameA == <<"a">>
P000 == UPART \o <<"0", "0", "0">>
P001 == UPART \o <<"0", "0", "1">>
P002 == UPART \o <<"0", "0", "2">>

DirNames ==
    { NameA \o P000 \o DOT_TXT,                   \* a_part000.txt
      NameA \o P002 \o DOT_TXT,                   \* a_part002.txt
      NameA \o P000 \o DOT_CLEAN_TXT,             \* a_part000.clean.txt
      NameA \o P002 \o DOT_CLEAN_TXT,             \* a_part002.clean.txt
      NameA \o P000 \o DOT_JSON,                  \* a_part000.json
      NameA \o UPART \o <<"1">> \o P000 \o DOT_TXT,   \* a_part1_part000.txt
      NameA \o UPART \o <<"1">> \o P001 \o DOT_TXT,   \* a_part1_part001.txt
      NameA \o DOT_TXT,                           \* a.txt
      NameA \o UPART \o <<"x">> \o DOT_TXT }     \* a_partx.txt

\* the audio files check_existing_transcripts is asked about
CheckFiles ==
    { NameA \o P000 \o DOT_MP3,                   \* a_part000.mp3
      NameA \o DOT_WAV }                         \* a.wav

Payload(name) == <<" ">> \o name \o <<"\n">>

\* what a file of the directory may hold: text, white space only, or (for
\* the artifacts the existence check reads) nothing at all
Contents(name) ==
    IF name \in {NameA \o P000 \o DOT_TXT, NameA \o DOT_TXT}
    THEN <<Payload(name), <<" ">>, <<>> >>
    ELSE IF EndsWith(name, DOT_JSON) THEN <<Payload(name), <<>> >>
    ELSE <<Payload(name), <<" ">> >>

Directories ==
    UNION {{[n \in S |-> Contents(n)[k[n]]] :
                k \in {c \in [S -> 1..3] : \A n \in S : c[n] <= Len(Contents(n))}}
           : S \in {T \in SUBSET DirNames : Cardinality(T) <= MaxDirFiles}}

NoCalls == [probe |-> 0, segmenter |-> 0, convert |-> 0, stt |-> 0, cleanup |-> 0, merge |-> 0]

InitDir ==
    /\ trans \in Directories
    /\ orig = EmptyDir
    /\ splits = EmptyDir
    /\ pc = "dir"
    /\ batch = <<>>
    /\ fi = 0
    /\ segs = <<>>
    /\ si = 0
    /\ calls = NoCalls
    /\ log = <<>>
    /\ runs = 0
    /\ ret = [op |-> "none"]

\* check_existing_transcripts(file_path)
DirCheck ==
    /\ pc = "dir"
    /\ \E f \in CheckFiles :
          ret' = [op |-> "check", file |-> f, before |-> trans,
                  result |-> CheckExistingTranscripts(trans, f)]
    /\ pc' = "checked"
    /\ UNCHANGED <<orig, splits, trans, batch, fi, segs, si, calls, log, runs>>

\* merge_transcripts()
DirMerge ==
    /\ pc = "dir"
    /\ runs < MaxRuns
    /\ trans' \in MergeTranscripts(trans)
    /\ ret' = [op |-> "merge", before |-> trans]
    /\ runs' = runs + 1
    /\ UNCHANGED <<orig, splits, pc, batch, fi, segs, si, calls, log>>

NextDir == DirCheck \/ DirMerge

SpecDir == InitDir /\ [][NextDir]_vars


(***************************************************************************)
(* Properties of the transcript manager (checked under SpecDir).           *)
(***************************************************************************)
FileState(dir, name) ==
    IF name \notin DOMAIN dir THEN "missing"
    ELSE IF Len(dir[name]) = 0 THEN "zero" ELSE "nonzero"

\* C3: check_existing_transcripts answers true exactly when the raw-text
\* artifact and the metadata artifact of the item both exist and both have
\* non-zero length, and in every other combination (either one missing or
\* zero-length) answers false; the query leaves every file as it was.
C3_CheckIffBothNonZero ==
    ret.op = "check" =>
        LET txt  == Stem(ret.file) \o DOT_TXT
            json == Stem(ret.file) \o DOT_JSON
        IN  /\ ret.result <=> /\ FileState(ret.before, txt) = "nonzero"
                              /\ FileState(ret.before, json) = "nonzero"
            /\ trans = ret.before

\* a zero-byte metadata file next to a non-empty text file: "not done"
C3_Witness ==
    /\ ret.op = "check"
    /\ ret.file = NameA \o P000 \o DOT_MP3
    /\ FileState(trans, NameA \o P000 \o DOT_TXT) = "nonzero"
    /\ FileState(trans, NameA \o P000 \o DOT_JSON) = "zero"
    /\ ret.result = FALSE

Ext(clean) == IF clean THEN DOT_CLEAN_TXT ELSE DOT_TXT

\* name is <series>_part<digits><ext>: a segment transcript of the series
IsPartOf(name, series, clean) ==
    /\ GlobMatch(name, series \o UPART, Ext(clean))
    /\ LET mid == SubSeq(name, Len(series) + Len(UPART) + 1, Len(name) - Len(Ext(clean)))
       IN  mid # <<>> /\ LeadingDigits(mid) = Len(mid)

\* the segment index of such a name
PartIndex(name, series, clean) ==
    ParseInt(SubSeq(name, Len(series) + Len(UPART) + 1, Len(name) - Len(Ext(clean))))

\* the stripped contents of the files of e, in the order of e
Paragraphs(dir, e) == [i \in 1..Len(e) |-> Strip(dir[e[i]])]

\* the files of the directory that Section 4.5 step 3a selects for one
\* variant of a series and whose content survives stripping
Surviving(dir, series, clean) ==
    {n \in DOMAIN dir :
        /\ GlobMatch(n, series \o UPART, Ext(clean))
        /\ clean \/ ~EndsWith(n, DOT_CLEAN_TXT)
        /\ Strip(dir[n]) # <<>>}

\* C8: for every series, the merged raw and the merged cleaned document list
\* the surviving part contents in ascending order of the segments' integer
\* part index, whatever order the directory lists them in, joined by "\n\n".
C8_MergeOrderCorrect ==
    ret.op = "merge" =>
        \A series \in SeriesNames(ret.before) : \A clean \in BOOLEAN :
            LET surviving == Surviving(ret.before, series, clean)
                output    == series \o Ext(clean)
            IN  surviving # {} =>
                    /\ output \in DOMAIN trans
                    /\ \E e \in Perms(surviving) :
                          /\ trans[output] = Join(SEP, Paragraphs(ret.before, e))
                          /\ \A i, j \in 1..Len(e) :
                                ( /\ i < j
                                  /\ IsPartOf(e[i], series, clean)
                                  /\ IsPartOf(e[j], series, clean) )
                                => PartIndex(e[i], series, clean)
                                      <= PartIndex(e[j], series, clean)

\* C9: for any subset of part indices present for a series the merged
\* document holds exactly the contents of the existing non-empty parts, each
\* exactly once, joined by single separators: nothing stands in for a
\* missing index.
C9_MergeGapTolerant ==
    ret.op = "merge" =>
        \A series \in SeriesNames(ret.before) : \A clean \in BOOLEAN :
            LET surviving == Surviving(ret.before, series, clean)
                output    == series \o Ext(clean)
            IN  surviving # {} =>
                    /\ output \in DOMAIN trans
                    /\ \E e \in Perms(surviving) :
                          trans[output] = Join(SEP, Paragraphs(ret.before, e))

\* parts 0 and 2 exist, part 1 does not, and the merged document is the two
\* contents with one separator between them
C9_Witness ==
    /\ ret.op = "merge"
    /\ DOMAIN ret.before = {NameA \o P000 \o DOT_TXT, NameA \o P002 \o DOT_TXT}
    /\ NameA \o DOT_TXT \in DOMAIN trans
    /\ trans[NameA \o DOT_TXT] =
          NameA \o P000 \o DOT_TXT \o SEP \o NameA \o P002 \o DOT_TXT

\* doc holds the text p somewhere
Contains(doc, p) ==
    \E i \in 1..Len(doc) : i + Len(p) - 1 <= Len(doc) /\ SubSeq(doc, i, i + Len(p) - 1) = p

\* C10: the merged raw document of a series is built only from raw part
\* files and the merged cleaned document only from .clean.txt part files: no
\* cleaned content appears in a raw document, no raw content in a cleaned
\* document, and a part that has only a raw transcript is in the raw document.
C10_MergeSeparatesVariants ==
    ret.op = "merge" =>
        \A series \in SeriesNames(ret.before) :
            LET raw_doc   == series \o DOT_TXT
                clean_doc == series \o DOT_CLEAN_TXT
                texts(cl) == {Strip(ret.before[n]) :
                                n \in {f \in DOMAIN ret.before :
                                         /\ IsPartOf(f, series, cl)
                                         /\ Strip(ret.before[f]) # <<>>}}
            IN  /\ \A p \in texts(TRUE) :
                      /\ raw_doc \in DOMAIN trans => ~Contains(trans[raw_doc], p)
                      /\ clean_doc \in DOMAIN trans /\ Contains(trans[clean_doc], p)
                /\ \A p \in texts(FALSE) :
                      /\ clean_doc \in DOMAIN trans => ~Contains(trans[clean_doc], p)
                      /\ raw_doc \in DOMAIN trans /\ Contains(trans[raw_doc], p)

\* parts 0 and 2 have raw text, only part 0 has cleaned text
C10_Witness ==
    /\ ret.op = "merge"
    /\ DOMAIN ret.before = {NameA \o P000 \o DOT_TXT, NameA \o P002 \o DOT_TXT,
                            NameA \o P000 \o DOT_CLEAN_TXT}
    /\ NameA \o DOT_TXT \in DOMAIN trans
    /\ NameA \o DOT_CLEAN_TXT \in DOMAIN trans
    /\ trans[NameA \o DOT_CLEAN_TXT] = NameA \o P000 \o DOT_CLEAN_TXT
    /\ Contains(trans[NameA \o DOT_TXT], NameA \o P002 \o DOT_TXT)


(***************************************************************************)
(* Configuration (config.py, transcription.py).                            *)
(***************************************************************************)
MAX_SPLIT_SIZE_MB == 5
MAX_SPLIT_DURATION == 600
MAX_FILE_SIZE == 25 * 1024 * 1024
SUPPORTED_FORMATS == {DOT_MP3, DOT_WAV}
MAX_FILE_SIZE_MB == 25
DefaultRetries == 3
BaseDelay == 30

RECURSIVE Pow2(_)
Pow2(n) == IF n = 0 THEN 1 ELSE 2 * Pow2(n - 1)

(***************************************************************************)
(* TranscriptionService.transcribe_file                                    *)
(*                                                                         *)
(* outcomes[k] is what the k-th call of the remote speech-to-text          *)
(* capability does: [kind |-> "ok", text |-> t] or                         *)
(* [kind |-> "raise", err |-> e].                                          *)
(***************************************************************************)
\* response.model_dump() plus the file_info block
ResponseDict(text, file_name, size) ==
    [text |-> text, file_info |-> [original_filename |-> file_name, file_size |-> size]]

\* the retry loop "for attempt in range(retries)", from attempt on
\* (a loop without the re-raise of line 70: it sleeps after the last failure
\* and ends in the generic error of line 74)
RECURSIVE TranscribeAttemptsWrapped(_, _, _, _, _, _)
TranscribeAttemptsWrapped(attempt, retries, outcomes, sleeps, file_name, size) ==
    IF attempt >= retries
    THEN [status |-> "raised", error |-> "RuntimeError", calls |-> attempt, sleeps |-> sleeps]
    ELSE IF outcomes[attempt + 1].kind = "ok"
    THEN [status |-> "ok", text |-> outcomes[attempt + 1].text,
          metadata |-> ResponseDict(outcomes[attempt + 1].text, file_name, size),
          calls |-> attempt + 1, sleeps |-> sleeps]
    ELSE TranscribeAttemptsWrapped(attempt + 1, retries, outcomes,
                                   Append(sleeps, BaseDelay * Pow2(attempt)), file_name, size)

RECURSIVE TranscribeAttempts(_, _, _, _, _, _)
TranscribeAttempts(attempt, retries, outcomes, sleeps, file_name, size) ==
    IF attempt >= retries
    THEN \* line 74, reached only when the loop body never ran
         [status |-> "raised", error |-> "RuntimeError", calls |-> attempt, sleeps |-> sleeps]
    ELSE IF outcomes[attempt + 1].kind = "ok"
    THEN [status |-> "ok", text |-> outcomes[attempt + 1].text,
          metadata |-> ResponseDict(outcomes[attempt + 1].text, file_name, size),
          calls |-> attempt + 1, sleeps |-> sleeps]
    ELSE IF attempt = retries - 1
    THEN [status |-> "raised", error |-> outcomes[attempt + 1].err,
          calls |-> attempt + 1, sleeps |-> sleeps]
    ELSE TranscribeAttempts(attempt + 1, retries, outcomes,
                            Append(sleeps, BaseDelay * Pow2(attempt)), file_name, size)

\* file_size_mb >= MAX_FILE_SIZE_MB, with file_size_mb = st_size / (1024 * 1024):
\* the float division by a power of two is exact
\* (variant: the comparison before it was changed from > to >=)
ExceedsSizeLimitStrict(size) == size > MAX_FILE_SIZE_MB * (1024 * 1024)

ExceedsSizeLimit(size) == size >= MAX_FILE_SIZE_MB * (1024 * 1024)

TranscribeFile(exists, file_name, size, retries, outcomes) ==
    IF ~exists
    THEN [status |-> "raised", error |-> "FileNotFoundError", calls |-> 0, sleeps |-> <<>>]
    ELSE IF ExceedsSizeLimit(size)
    THEN [status |-> "raised", error |-> "SizeLimit", calls |-> 0, sleeps |-> <<>>]
    ELSE TranscribeAttempts(0, retries, outcomes, <<>>, file_name, size)

(***************************************************************************)
(* TranscriptManager.save_transcript                                       *)
(***************************************************************************)
\* str(i) for i >= 0
RECURSIVE Str(_)
Str(i) ==
    LET d == <<"0", "1", "2", "3", "4", "5", "6", "7", "8", "9">>[(i % 10) + 1]
    IN  IF i < 10 THEN <<d>> ELSE Str(i \div 10) \o <<d>>

\* "%03d" % i
Format03(i) ==
    IF i < 10 THEN <<"0", "0">> \o Str(i)
    ELSE IF i < 100 THEN <<"0">> \o Str(i)
    ELSE Str(i)

\* json.dump(metadata): never the empty string
RECURSIVE JsonEscape(_)
JsonEscape(s) ==
    IF s = <<>> THEN <<>>
    ELSE (CASE Head(s) = "\"" -> <<"\\", "\"">>
            [] Head(s) = "\\" -> <<"\\", "\\">>
            [] Head(s) = "\n" -> <<"\\", "n">>
            [] OTHER -> <<Head(s)>>) \o JsonEscape(Tail(s))

JsonDump(metadata) ==
    <<"{", "\"">> \o JsonEscape(metadata.text) \o <<"\"", ",", "\"">>
        \o JsonEscape(metadata.file_info.original_filename) \o <<"\"", ",">>
        \o Str(metadata.file_info.file_size) \o <<"}">>

\* json.loads: the string that starts at doc[i], after its opening quote
RECURSIVE JsonReadString(_, _, _)
JsonReadString(doc, i, acc) ==
    IF doc[i] = "\"" THEN [val |-> acc, next |-> i + 1]
    ELSE IF doc[i] = "\\"
    THEN JsonReadString(doc, i + 2, Append(acc, IF doc[i + 1] = "n" THEN "\n" ELSE doc[i + 1]))
    ELSE JsonReadString(doc, i + 1, Append(acc, doc[i]))

\* json.loads of what JsonDump wrote
JsonLoad(doc) ==
    LET t == JsonReadString(doc, 3, <<>>)
        f == JsonReadString(doc, t.next + 2, <<>>)
    IN  [text |-> t.val,
         file_info |-> [original_filename |-> f.val,
                        file_size |-> ParseInt(SubSeq(doc, f.next + 1, Len(doc) - 1))]]

\* (variant: the files are written and not looked at again)
SaveTranscriptNoVerify(dir, text, metadata, original_file) ==
    LET base_name == GetBaseFilename(original_file)
    IN  [status |-> "ok",
         dir |-> WriteFile(WriteFile(dir, base_name \o DOT_TXT, text),
                           base_name \o DOT_JSON, JsonDump(metadata)),
         txt_path |-> base_name \o DOT_TXT, json_path |-> base_name \o DOT_JSON]

SaveTranscript(dir, text, metadata, original_file) ==
    LET base_name == GetBaseFilename(original_file)
        txt_path  == base_name \o DOT_TXT
        json_path == base_name \o DOT_JSON
        written   == WriteFile(WriteFile(dir, txt_path, text), json_path, JsonDump(metadata))
    IN  IF ~Exists(written, txt_path) \/ StSize(written, txt_path) = 0
        THEN [status |-> "raised", error |-> "RuntimeError", dir |-> written]
        ELSE IF ~Exists(written, json_path) \/ StSize(written, json_path) = 0
        THEN [status |-> "raised", error |-> "RuntimeError", dir |-> written]
        ELSE [status |-> "ok", dir |-> written, txt_path |-> txt_path, json_path |-> json_path]

(***************************************************************************)
(* TranscriptCleaner.clean_transcript                                      *)
(*                                                                         *)
(* outcomes[k] is what the k-th call of the cleanup capability does:       *)
(* [kind |-> "ok", content |-> c] (a response whose first choice holds     *)
(* the content c, possibly empty) or [kind |-> "raise", err |-> e].        *)
(***************************************************************************)
\* PurePath.suffixes: empty when the name ends with a dot, else one suffix
\* for every dot after the leading dots
LastSuffix(name) ==
    LET stripped == LET lead == CHOOSE k \in 0..Len(name) :
                                    /\ \A i \in 1..k : name[i] = "."
                                    /\ k = Len(name) \/ name[k + 1] # "."
                        IN  SubSeq(name, lead + 1, Len(name))
        j == RFind(stripped, ".")
    IN  IF name # <<>> /\ name[Len(name)] = "." THEN <<>>
        ELSE IF j = 0 THEN <<>>
        ELSE SubSeq(stripped, j, Len(stripped))

\* TranscriptCleaner._get_base_filename
CleanerBaseFilename(name) ==
    LET actual_extension == LastSuffix(name)
    IN  IF actual_extension # <<>>
        THEN SubSeq(name, 1, Len(name) - Len(actual_extension))
        ELSE name

\* (variant: an invalid response is raised at once instead of being tried again)
RECURSIVE CleanAttemptsInvalidFatal(_, _, _, _, _, _)
CleanAttemptsInvalidFatal(attempt, retries, outcomes, sleeps, dir, clean_path) ==
    IF attempt >= retries
    THEN [status |-> "raised", error |-> "RuntimeError", calls |-> attempt,
          sleeps |-> sleeps, dir |-> dir]
    ELSE IF outcomes[attempt + 1].kind = "raise"
    THEN IF attempt = retries - 1
         THEN [status |-> "raised", error |-> outcomes[attempt + 1].err,
               calls |-> attempt + 1, sleeps |-> sleeps, dir |-> dir]
         ELSE CleanAttemptsInvalidFatal(attempt + 1, retries, outcomes,
                                        Append(sleeps, BaseDelay * Pow2(attempt)),
                                        dir, clean_path)
    ELSE IF outcomes[attempt + 1].content = <<>>
    THEN [status |-> "raised", error |-> "ValueError", calls |-> attempt + 1,
          sleeps |-> sleeps, dir |-> dir]
    ELSE [status |-> "ok", clean_path |-> clean_path, calls |-> attempt + 1,
          sleeps |-> sleeps,
          dir |-> WriteFile(dir, clean_path, Strip(outcomes[attempt + 1].content))]

\* (variant: the wait of line 154 without the doubling, BaseDelay after every
\* failed attempt)
RECURSIVE CleanAttemptsFixedDelay(_, _, _, _, _, _)
CleanAttemptsFixedDelay(attempt, retries, outcomes, sleeps, dir, clean_path) ==
    IF attempt >= retries
    THEN [status |-> "raised", error |-> "RuntimeError", calls |-> attempt,
          sleeps |-> sleeps, dir |-> dir]
    ELSE LET o == outcomes[attempt + 1]
             failure == IF o.kind = "raise" THEN o.err
                        ELSE IF o.content = <<>> THEN "ValueError"
                        ELSE "none"
         IN  IF failure = "none"
             THEN [status |-> "ok", clean_path |-> clean_path, calls |-> attempt + 1,
                   sleeps |-> sleeps,
                   dir |-> WriteFile(dir, clean_path, Strip(o.content))]
             ELSE IF attempt = retries - 1
             THEN [status |-> "raised", error |-> failure, calls |-> attempt + 1,
                   sleeps |-> sleeps, dir |-> dir]
             ELSE CleanAttemptsFixedDelay(attempt + 1, retries, outcomes,
                                          Append(sleeps, BaseDelay), dir, clean_path)

RECURSIVE CleanAttempts(_, _, _, _, _, _)
CleanAttempts(attempt, retries, outcomes, sleeps, dir, clean_path) ==
    IF attempt >= retries
    THEN [status |-> "raised", error |-> "RuntimeError", calls |-> attempt,
          sleeps |-> sleeps, dir |-> dir]
    ELSE LET o == outcomes[attempt + 1]
             \* lines 134-139: no choices, no message or falsy content
             failure == IF o.kind = "raise" THEN o.err
                        ELSE IF o.content = <<>> THEN "ValueError"
                        ELSE "none"
         IN  IF failure = "none"
             THEN [status |-> "ok", clean_path |-> clean_path, calls |-> attempt + 1,
                   sleeps |-> sleeps,
                   dir |-> WriteFile(dir, clean_path, Strip(o.content))]
             ELSE IF attempt = retries - 1
             THEN [status |-> "raised", error |-> failure, calls |-> attempt + 1,
                   sleeps |-> sleeps, dir |-> dir]
             ELSE CleanAttempts(attempt + 1, retries, outcomes,
                                Append(sleeps, BaseDelay * Pow2(attempt)), dir, clean_path)

\* (variant: an empty cleaned file does not count as existing)
CleanTranscriptSizeCheck(dir, transcript_path, retries, outcomes) ==
    LET clean_path == CleanerBaseFilename(transcript_path) \o DOT_CLEAN_TXT
    IN  IF ~Exists(dir, transcript_path)
        THEN [status |-> "raised", error |-> "FileNotFoundError", calls |-> 0,
              sleeps |-> <<>>, dir |-> dir]
        ELSE IF Exists(dir, clean_path) /\ StSize(dir, clean_path) > 0
        THEN [status |-> "ok", clean_path |-> clean_path, calls |-> 0,
              sleeps |-> <<>>, dir |-> dir]
        ELSE CleanAttempts(0, retries, outcomes, <<>>, dir, clean_path)

CleanTranscript(dir, transcript_path, retries, outcomes) ==
    LET base_name  == CleanerBaseFilename(transcript_path)
        clean_path == base_name \o DOT_CLEAN_TXT
    IN  IF ~Exists(dir, transcript_path)
        THEN [status |-> "raised", error |-> "FileNotFoundError", calls |-> 0,
              sleeps |-> <<>>, dir |-> dir]
        ELSE IF Exists(dir, clean_path)
        THEN [status |-> "ok", clean_path |-> clean_path, calls |-> 0,
              sleeps |-> <<>>, dir |-> dir]
        ELSE CleanAttempts(0, retries, outcomes, <<>>, dir, clean_path)

(***************************************************************************)
(* AudioTranscriptionPipeline._process_single_file                         *)
(***************************************************************************)
\* lines 86-92, after clean_transcript returned or raised
ProcessSingleFileCleaned(stt_calls, c) ==
    [status |-> c.status,
     error |-> IF c.status = "raised" THEN c.error ELSE "none",
     dir |-> c.dir, stt_calls |-> stt_calls, cleanup_calls |-> c.calls,
     steps |-> <<"transcribe", "save", "clean">>]

\* lines 80-86, after save_transcript returned or raised
ProcessSingleFileSaved(stt_calls, s, cleanup) ==
    IF s.status = "raised"
    THEN [status |-> "raised", error |-> s.error, dir |-> s.dir,
          stt_calls |-> stt_calls, cleanup_calls |-> 0,
          steps |-> <<"transcribe", "save">>]
    ELSE ProcessSingleFileCleaned(
             stt_calls, CleanTranscript(s.dir, s.txt_path, DefaultRetries, cleanup))

\* lines 76-80, after transcribe_file returned or raised
ProcessSingleFileTranscribed(dir, file_name, t, cleanup) ==
    IF t.status = "raised"
    THEN [status |-> "raised", error |-> t.error, dir |-> dir,
          stt_calls |-> t.calls, cleanup_calls |-> 0, steps |-> <<"transcribe">>]
    ELSE ProcessSingleFileSaved(
             t.calls, SaveTranscript(dir, t.text, t.metadata, file_name), cleanup)

ProcessSingleFile(dir, file_name, size, stt, cleanup) ==
    ProcessSingleFileTranscribed(
        dir, file_name, TranscribeFile(TRUE, file_name, size, DefaultRetries, stt), cleanup)


(***************************************************************************)
(* AudioProcessor.split_audio                                              *)
(*                                                                         *)
(* ext is what the external tools do when they are run:                    *)
(*   ext.convert  "ok" | "error" | "timeout" | "timeout_partial"           *)
(*                ffmpeg converting m4a to mp3                             *)
(*   ext.probe    [kind |-> "info" | "error" | "timeout" | "invalid_json", *)
(*                 bit_rate |-> [tag, val], duration |-> [tag, val]]       *)
(*   ext.seg      [kind |-> "ok" | "error" | "timeout", sizes |-> <<..>>]  *)
(*                the segmenter and the sizes of the files it leaves       *)
(*   ext.unlink_ok  whether deleting a segment file succeeds               *)
(***************************************************************************)
DOT_M4A == <<".", "m", "4", "a">>

\* sorted(paths): the names of one directory in ascending str order
SortedPaths(S) == SortedNames(S)

\* glob(f"{stem}_part*.mp3")
SplitGlob(dir, stem) == {n \in DOMAIN dir : GlobMatch(n, stem \o UPART, DOT_MP3)}

\* get_existing_splits
\* (variant: the glob ends in the source's own suffix)
GetExistingSplitsSourceSuffix(split_dir, file_name) ==
    SortedPaths({n \in DOMAIN split_dir :
                    GlobMatch(n, Stem(file_name) \o UPART, Suffix(file_name))})

GetExistingSplits(split_dir, file_name) == SortedPaths(SplitGlob(split_dir, Stem(file_name)))

\* convert_m4a_to_mp3, on a name whose suffix is .m4a
ConvertM4aToMp3(orig_dir, file_name, ext) ==
    LET output_path == Stem(file_name) \o DOT_MP3
    IN  IF ~Exists(orig_dir, file_name)
        THEN [status |-> "raised", error |-> "AUDIO_FILE_NOT_FOUND", orig |-> orig_dir, calls |-> 0]
        ELSE IF Exists(orig_dir, output_path)
        THEN [status |-> "ok", path |-> output_path, orig |-> orig_dir, calls |-> 0]
        ELSE IF ext.convert = "ok"
        THEN [status |-> "ok", path |-> output_path, calls |-> 1,
              orig |-> WriteFile(orig_dir, output_path, orig_dir[file_name])]
        ELSE IF ext.convert = "error"
        THEN [status |-> "raised", error |-> "CONVERSION_ERROR", orig |-> orig_dir, calls |-> 1]
        ELSE IF ext.convert = "timeout"
        THEN [status |-> "raised", error |-> "TIMEOUT_ERROR", orig |-> orig_dir, calls |-> 1]
        ELSE \* "timeout_partial": the killed encoder leaves what it had written
             [status |-> "raised", error |-> "TIMEOUT_ERROR", calls |-> 1,
              orig |-> WriteFile(orig_dir, output_path, 1)]

\* get_audio_info
GetAudioInfo(ext) ==
    IF ext.probe.kind = "info" THEN [status |-> "ok"]
    ELSE IF ext.probe.kind = "error" THEN [status |-> "raised", error |-> "COMMAND_ERROR"]
    ELSE IF ext.probe.kind = "timeout" THEN [status |-> "raised", error |-> "TIMEOUT_ERROR"]
    ELSE [status |-> "raised", error |-> "INVALID_JSON_ERROR"]

\* _validate_audio_metadata
\* (variant: the sign of the bit rate is not looked at)
ValidateAudioMetadataNoSign(info) ==
    IF info.bit_rate.tag = "nostreams" THEN [status |-> "raised", error |-> "IndexError"]
    ELSE IF info.bit_rate.tag = "null" THEN [status |-> "raised", error |-> "TypeError"]
    ELSE IF info.bit_rate.tag \in {"missing", "nonnumeric"}
    THEN [status |-> "raised", error |-> "INVALID_BITRATE_ERROR"]
    ELSE [status |-> "ok", bitrate |-> info.bit_rate.val]

ValidateAudioMetadata(info) ==
    IF info.bit_rate.tag = "nostreams" THEN [status |-> "raised", error |-> "IndexError"]
    ELSE IF info.bit_rate.tag = "null" THEN [status |-> "raised", error |-> "TypeError"]
    ELSE IF info.bit_rate.tag \in {"missing", "nonnumeric"}
    THEN [status |-> "raised", error |-> "INVALID_BITRATE_ERROR"]
    ELSE IF info.bit_rate.val <= 0
    THEN [status |-> "raised", error |-> "INVALID_BITRATE_ERROR"]
    ELSE IF info.duration.tag = "null" THEN [status |-> "raised", error |-> "TypeError"]
    ELSE IF info.duration.tag \in {"missing", "nonnumeric"}
    THEN [status |-> "raised", error |-> "INVALID_DURATION_ERROR"]
    ELSE IF info.duration.tag = "num" /\ info.duration.val <= 0
    THEN [status |-> "raised", error |-> "INVALID_DURATION_ERROR"]
    ELSE [status |-> "ok", bitrate |-> info.bit_rate.val]

\* Python's int / int: the binary64 number nearest to the quotient, ties to
\* the even significand.  The model keeps the quotient num / den and, as
\* err, on which side of it the binary64 number lies (-1 below, 0 equal,
\* 1 above).
MantissaBits == 53

RECURSIVE BitLength(_)
BitLength(n) == IF n = 0 THEN 0 ELSE 1 + BitLength(n \div 2)

\* long division of r / m, one binary digit at a time, until MantissaBits
\* significant digits are out; sig counts them, odd tells the last one
RECURSIVE RoundingError(_, _, _, _)
RoundingError(r, m, sig, odd) ==
    IF r = 0 THEN 0
    ELSE IF sig = MantissaBits
    THEN IF 2 * r < m THEN -1
         ELSE IF 2 * r > m THEN 1
         ELSE IF odd THEN 1 ELSE -1
    ELSE RoundingError(IF 2 * r >= m THEN 2 * r - m ELSE 2 * r, m,
                       IF sig > 0 \/ 2 * r >= m THEN sig + 1 ELSE 0,
                       2 * r >= m)

TrueDivide(n, m) ==
    [num |-> n, den |-> m,
     err |-> RoundingError(n % m, m, BitLength(n \div m), (n \div m) % 2 = 1)]

\* lines 414-415
\* (variant: the size-based duration alone)
SegmentDurationNoCeiling(bitrate) ==
    TrueDivide(MAX_SPLIT_SIZE_MB * 8 * 1024 * 1024, bitrate)

\* min(size_based_duration, MAX_SPLIT_DURATION): the quotient is below the
\* ceiling exactly when its binary64 number is, the ceiling being an integer
\* and the quotient a ratio of integers with a denominator far below 2^52
SegmentDuration(bitrate) ==
    LET size_bits == MAX_SPLIT_SIZE_MB * 8 * 1024 * 1024
    IN  IF size_bits < MAX_SPLIT_DURATION * bitrate
        THEN TrueDivide(size_bits, bitrate)
        ELSE [num |-> MAX_SPLIT_DURATION, den |-> 1, err |-> 0]

\* the files the segmenter leaves in the output directory
SegmenterOutput(split_dir, stem, sizes) ==
    [n \in DOMAIN split_dir \cup {stem \o UPART \o Format03(i - 1) \o DOT_MP3 : i \in 1..Len(sizes)} |->
        IF \E i \in 1..Len(sizes) : n = stem \o UPART \o Format03(i - 1) \o DOT_MP3
        THEN sizes[CHOOSE i \in 1..Len(sizes) : n = stem \o UPART \o Format03(i - 1) \o DOT_MP3]
        ELSE split_dir[n]]

\* no duration was computed
NoDuration == [num |-> 0, den |-> 0, err |-> 0]

\* the except clause of lines 438-445
\* (variant: nothing is deleted)
SplitCleanupNone(split_dir, stem, ext) == split_dir

SplitCleanup(split_dir, stem, ext) ==
    IF ext.unlink_ok THEN Unlink(split_dir, SplitGlob(split_dir, stem)) ELSE split_dir

SplitFailed(error, orig_dir, split_dir, stem, ext, counts) ==
    [status |-> "raised", error |-> error, result |-> <<>>, orig |-> orig_dir,
     splits |-> SplitCleanup(split_dir, stem, ext),
     convert_calls |-> counts.convert, probe_calls |-> counts.probe,
     segmenter_calls |-> counts.segmenter, divided |-> counts.divided,
     segment_duration |-> counts.segment_duration]

\* (variant: a failed tool is run a second time before the split fails)
SplitFromRetrying(orig_dir, split_dir, file_name, ext, convert_calls) ==
    LET stem     == Stem(file_name)
        existing == GetExistingSplits(split_dir, file_name)
        info     == GetAudioInfo(ext)
        valid    == ValidateAudioMetadata(ext.probe)
        counts(p, s, d) == [convert |-> convert_calls, probe |-> p, segmenter |-> s, divided |-> d,
                            segment_duration |-> IF d THEN SegmentDuration(valid.bitrate)
                                                 ELSE NoDuration]
        after    == SegmenterOutput(split_dir, stem, ext.seg.sizes)
        split_files == SortedPaths(SplitGlob(after, stem))
    IN  IF existing # <<>>
        THEN [status |-> "ok", result |-> existing, orig |-> orig_dir, splits |-> split_dir,
              convert_calls |-> convert_calls, probe_calls |-> 0, segmenter_calls |-> 0,
              divided |-> FALSE, segment_duration |-> NoDuration]
        ELSE IF ~Exists(orig_dir, file_name)
        THEN SplitFailed("AUDIO_FILE_NOT_FOUND", orig_dir, split_dir, stem, ext, counts(0, 0, FALSE))
        ELSE IF info.status = "raised"
        THEN SplitFailed(info.error, orig_dir, split_dir, stem, ext, counts(2, 0, FALSE))
        ELSE IF valid.status = "raised"
        THEN SplitFailed(valid.error, orig_dir, split_dir, stem, ext, counts(1, 0, FALSE))
        ELSE IF ext.seg.kind = "error"
        THEN SplitFailed("SPLIT_ERROR", orig_dir, after, stem, ext, counts(1, 2, TRUE))
        ELSE IF ext.seg.kind = "timeout"
        THEN SplitFailed("TIMEOUT_ERROR", orig_dir, after, stem, ext, counts(1, 2, TRUE))
        ELSE IF split_files = <<>>
        THEN SplitFailed("NO_SPLITS_ERROR", orig_dir, after, stem, ext, counts(1, 1, TRUE))
        ELSE [status |-> "ok", result |-> split_files, orig |-> orig_dir, splits |-> after,
              convert_calls |-> convert_calls, probe_calls |-> 1, segmenter_calls |-> 1,
              divided |-> TRUE, segment_duration |-> SegmentDuration(valid.bitrate)]

\* (variant: without the test of lines 433-434, the list is returned as found)
SplitFromAllowEmpty(orig_dir, split_dir, file_name, ext, convert_calls) ==
    LET stem     == Stem(file_name)
        existing == GetExistingSplits(split_dir, file_name)
        info     == GetAudioInfo(ext)
        valid    == ValidateAudioMetadata(ext.probe)
        counts(p, s, d) == [convert |-> convert_calls, probe |-> p, segmenter |-> s, divided |-> d,
                            segment_duration |-> IF d THEN SegmentDuration(valid.bitrate)
                                                 ELSE NoDuration]
        after    == SegmenterOutput(split_dir, stem, ext.seg.sizes)
        split_files == SortedPaths(SplitGlob(after, stem))
    IN  IF existing # <<>>
        THEN [status |-> "ok", result |-> existing, orig |-> orig_dir, splits |-> split_dir,
              convert_calls |-> convert_calls, probe_calls |-> 0, segmenter_calls |-> 0,
              divided |-> FALSE, segment_duration |-> NoDuration]
        ELSE IF ~Exists(orig_dir, file_name)
        THEN SplitFailed("AUDIO_FILE_NOT_FOUND", orig_dir, split_dir, stem, ext, counts(0, 0, FALSE))
        ELSE IF info.status = "raised"
        THEN SplitFailed(info.error, orig_dir, split_dir, stem, ext, counts(1, 0, FALSE))
        ELSE IF valid.status = "raised"
        THEN SplitFailed(valid.error, orig_dir, split_dir, stem, ext, counts(1, 0, FALSE))
        ELSE IF ext.seg.kind = "error"
        THEN SplitFailed("SPLIT_ERROR", orig_dir, after, stem, ext, counts(1, 1, TRUE))
        ELSE IF ext.seg.kind = "timeout"
        THEN SplitFailed("TIMEOUT_ERROR", orig_dir, after, stem, ext, counts(1, 1, TRUE))
        ELSE [status |-> "ok", result |-> split_files, orig |-> orig_dir, splits |-> after,
              convert_calls |-> convert_calls, probe_calls |-> 1, segmenter_calls |-> 1,
              divided |-> TRUE, segment_duration |-> SegmentDuration(valid.bitrate)]

\* lines 396-436, for the file at file_name (after a conversion, if any)
SplitFrom(orig_dir, split_dir, file_name, ext, convert_calls) ==
    LET stem     == Stem(file_name)
        existing == GetExistingSplits(split_dir, file_name)
        info     == GetAudioInfo(ext)
        valid    == ValidateAudioMetadata(ext.probe)
        counts(p, s, d) == [convert |-> convert_calls, probe |-> p, segmenter |-> s, divided |-> d,
                            segment_duration |-> IF d THEN SegmentDuration(valid.bitrate)
                                                 ELSE NoDuration]
        after    == SegmenterOutput(split_dir, stem, ext.seg.sizes)
        split_files == SortedPaths(SplitGlob(after, stem))
    IN  IF existing # <<>>
        THEN [status |-> "ok", result |-> existing, orig |-> orig_dir, splits |-> split_dir,
              convert_calls |-> convert_calls, probe_calls |-> 0, segmenter_calls |-> 0,
              divided |-> FALSE, segment_duration |-> NoDuration]
        ELSE IF ~Exists(orig_dir, file_name)
        THEN SplitFailed("AUDIO_FILE_NOT_FOUND", orig_dir, split_dir, stem, ext, counts(0, 0, FALSE))
        ELSE IF info.status = "raised"
        THEN SplitFailed(info.error, orig_dir, split_dir, stem, ext, counts(1, 0, FALSE))
        ELSE IF valid.status = "raised"
        THEN SplitFailed(valid.error, orig_dir, split_dir, stem, ext, counts(1, 0, FALSE))
        ELSE IF ext.seg.kind = "error"
        THEN SplitFailed("SPLIT_ERROR", orig_dir, after, stem, ext, counts(1, 1, TRUE))
        ELSE IF ext.seg.kind = "timeout"
        THEN SplitFailed("TIMEOUT_ERROR", orig_dir, after, stem, ext, counts(1, 1, TRUE))
        ELSE IF split_files = <<>>
        THEN SplitFailed("NO_SPLITS_ERROR", orig_dir, after, stem, ext, counts(1, 1, TRUE))
        ELSE [status |-> "ok", result |-> split_files, orig |-> orig_dir, splits |-> after,
              convert_calls |-> convert_calls, probe_calls |-> 1, segmenter_calls |-> 1,
              divided |-> TRUE, segment_duration |-> SegmentDuration(valid.bitrate)]

SplitAudio(orig_dir, split_dir, file_name, ext) ==
    IF Lower(Suffix(file_name)) = DOT_M4A
    THEN LET c == ConvertM4aToMp3(orig_dir, file_name, ext)
         IN  IF c.status = "raised"
             THEN SplitFailed(c.error, c.orig, split_dir, Stem(file_name), ext,
                              [convert |-> c.calls, probe |-> 0, segmenter |-> 0,
                               divided |-> FALSE, segment_duration |-> NoDuration])
             ELSE SplitFrom(c.orig, split_dir, c.path, ext, c.calls)
    ELSE SplitFrom(orig_dir, split_dir, file_name, ext, 0)


(***************************************************************************)
(* Spec: main() run repeatedly over data/original.                         *)
(*                                                                         *)
(* calls counts the invocations of the external capabilities made by the   *)
(* step just taken; log lists, for the current execution of main, what     *)
(* the orchestrator reached, in order.                                     *)
(***************************************************************************)
SmallSize == 1      \* byte size of a file far below every limit

Ok(text) == [kind |-> "ok", text |-> text]
Reply(content) == [kind |-> "ok", content |-> content]
Raise(err) == [kind |-> "raise", err |-> err]

\* the remote speech-to-text capability over one call of transcribe_file:
\* it answers at once, fails once and then answers, or fails every time;
\* the text it returns may be empty
PipelineStt ==
    { <<Ok(<<"t">>), Ok(<<"t">>), Ok(<<"t">>)>>,
      <<Raise("E1"), Ok(<<"t">>), Ok(<<"t">>)>>,
      <<Ok(<<>>), Ok(<<>>), Ok(<<>>)>>,
      <<Raise("E1"), Raise("E1"), Raise("E2")>> }

\* the cleanup capability over one call of clean_transcript: a rewrite, a
\* failure followed by a rewrite, failures only, a white-space answer, or an
\* answer without content
PipelineCleanup ==
    { <<Reply(<<"c", " ">>), Reply(<<"c", " ">>), Reply(<<"c", " ">>)>>,
      <<Raise("E1"), Reply(<<"c", " ">>), Reply(<<"c", " ">>)>>,
      <<Raise("E1"), Raise("E1"), Raise("E2")>>,
      <<Reply(<<" ">>), Reply(<<" ">>), Reply(<<" ">>)>>,
      <<Reply(<<>>), Reply(<<>>), Reply(<<>>)>> }

GoodProbe == [kind |-> "info", bit_rate |-> [tag |-> "int", val |-> 128000],
              duration |-> [tag |-> "num", val |-> 300]]

\* the tools over one call of split_audio: the segmenter leaves 1..MaxSegs
\* segments (the first one possibly over the size limit), or none, or fails
\* after writing one; or the probe fails
PipelineExts ==
    {[convert |-> "ok", probe |-> GoodProbe, unlink_ok |-> TRUE,
      seg |-> [kind |-> "ok", sizes |-> [i \in 1..k |-> IF i = 1 THEN first ELSE SmallSize]]]
        : k \in 1..MaxSegs, first \in {SmallSize, MAX_FILE_SIZE}}
    \cup
    {[convert |-> "ok", probe |-> GoodProbe, unlink_ok |-> TRUE, seg |-> s]
        : s \in {[kind |-> "ok", sizes |-> <<>>], [kind |-> "error", sizes |-> <<SmallSize>>]}}
    \cup
    {[convert |-> "ok", probe |-> [kind |-> "error"], unlink_ok |-> TRUE,
      seg |-> [kind |-> "ok", sizes |-> <<>>]]}

SrcA == NameA \o DOT_MP3                              \* a.mp3
SrcB == <<"b">> \o DOT_WAV                            \* b.wav
SrcAPart1 == NameA \o UPART \o <<"1">> \o DOT_MP3     \* a_part1.mp3
SrcNote == <<"n">> \o DOT_TXT                         \* n.txt, not an audio file

\* the contents of data/original the runs start from
OrigDirs ==
    { EmptyDir,
      (SrcNote :> SmallSize),
      (SrcA :> SmallSize),
      (SrcA :> MAX_FILE_SIZE),
      (SrcA :> MAX_FILE_SIZE + 1),
      (SrcA :> MAX_FILE_SIZE + 1) @@ (SrcB :> SmallSize),
      (SrcAPart1 :> MAX_FILE_SIZE + 1) @@ (SrcNote :> SmallSize),
      (SrcA :> SmallSize) @@ (SrcAPart1 :> SmallSize) }

Init ==
    /\ orig \in OrigDirs
    /\ splits = EmptyDir
    /\ trans = EmptyDir
    /\ pc = "idle"
    /\ batch = <<>>
    /\ fi = 0
    /\ segs = <<>>
    /\ si = 0
    /\ calls = NoCalls
    /\ log = <<>>
    /\ runs = 0
    /\ ret = [op |-> "none"]

\* main, lines 25-36: original_files and the early return
MainStartFrom(pcs) ==
    /\ pc \in pcs
    /\ runs < MaxRuns
    /\ \E original_files \in Perms({f \in DOMAIN orig : Lower(Suffix(f)) \in SUPPORTED_FORMATS}) :
          /\ batch' = original_files
          /\ pc' = IF original_files = <<>> THEN "done" ELSE "file"
          /\ fi' = IF original_files = <<>> THEN 0 ELSE 1
    /\ runs' = runs + 1
    /\ log' = <<>>
    /\ segs' = <<>>
    /\ si' = 0
    /\ calls' = NoCalls
    /\ ret' = [op |-> "main"]
    /\ UNCHANGED <<orig, splits, trans>>

MainStart == MainStartFrom({"idle", "done", "fatal"})

\* where main goes after process_file(batch[fi]) returned or raised: the
\* try/except of lines 39-53 continues with the next file either way
\* (variant: a failing file ends the loop)
AfterFileAbort(status) ==
    IF status = "raised" THEN "merge"
    ELSE IF fi < Len(batch) THEN "file" ELSE "merge"

AfterFile(status) == IF fi < Len(batch) THEN "file" ELSE "merge"

\* where process_file goes after one segment: the try/except of pipeline.py
\* lines 47-57 continues with the next segment either way
\* (variant: a failing segment ends the loop)
AfterSegmentAbort(status) ==
    IF status = "raised" THEN "next_file"
    ELSE IF si < Len(segs) THEN "seg" ELSE "next_file"

AfterSegment(status) == IF si < Len(segs) THEN "seg" ELSE "next_file"

\* process_file, lines 34-38
\* (variant: without the test of the extension)
ProcessFileEntryAnyFormat(orig_dir, file_name) ==
    IF ~Exists(orig_dir, file_name) THEN "FileNotFoundError" ELSE "ok"

ProcessFileEntry(orig_dir, file_name) ==
    IF ~Exists(orig_dir, file_name) THEN "FileNotFoundError"
    ELSE IF Lower(Suffix(file_name)) \notin SUPPORTED_FORMATS THEN "ValueError"
    ELSE "ok"

\* pipeline.py lines 49-54 and 60-65: skip a complete item, else process it
\* (variant: no look at the existing transcripts)
HandleItemNoCheck(dir, file_name, size, stt, cleanup) ==
    ProcessSingleFile(dir, file_name, size, stt, cleanup)

HandleItem(dir, file_name, size, stt, cleanup) ==
    IF CheckExistingTranscripts(dir, file_name)
    THEN [status |-> "skipped", error |-> "none", dir |-> dir, stt_calls |-> 0,
          cleanup_calls |-> 0, steps |-> <<>>]
    ELSE ProcessSingleFile(dir, file_name, size, stt, cleanup)

\* process_file on a source above MAX_FILE_SIZE: split_audio
ProcessFileSplitWith(exts) ==
    /\ pc = "file"
    /\ ProcessFileEntry(orig, batch[fi]) = "ok"
    /\ orig[batch[fi]] > MAX_FILE_SIZE
    /\ \E ext \in exts :
          \E r \in {SplitAudio(orig, splits, batch[fi], ext)} :
              /\ orig' = r.orig
              /\ splits' = r.splits
              /\ calls' = [NoCalls EXCEPT !.probe = r.probe_calls,
                                          !.segmenter = r.segmenter_calls,
                                          !.convert = r.convert_calls]
              /\ ret' = [op |-> "split", name |-> batch[fi], status |-> r.status,
                         error |-> IF r.status = "raised" THEN r.error ELSE "none"]
              /\ IF r.status = "ok"
                 THEN /\ segs' = r.result
                      /\ si' = 1
                      /\ pc' = "seg"
                      /\ fi' = fi
                      /\ log' = log \o << [ev |-> "process_file", name |-> batch[fi]],
                                          [ev |-> "split_files", names |-> r.result] >>
                 ELSE /\ segs' = <<>>
                      /\ si' = 0
                      /\ pc' = AfterFile("raised")
                      /\ fi' = IF AfterFile("raised") = "file" THEN fi + 1 ELSE fi
                      /\ log' = Append(log, [ev |-> "process_file", name |-> batch[fi]])
    /\ UNCHANGED <<trans, batch, runs>>

ProcessFileSplit == ProcessFileSplitWith(PipelineExts)

\* process_file on a source that is not split
ProcessFileUnsplitWith(stts, cleanups) ==
    /\ pc = "file"
    /\ ProcessFileEntry(orig, batch[fi]) = "ok"
    /\ orig[batch[fi]] <= MAX_FILE_SIZE
    /\ \E stt \in stts : \E cleanup \in cleanups :
          \E r \in {HandleItem(trans, batch[fi], orig[batch[fi]], stt, cleanup)} :
              /\ trans' = r.dir
              /\ calls' = [NoCalls EXCEPT !.stt = r.stt_calls, !.cleanup = r.cleanup_calls]
              /\ ret' = [op |-> "item", name |-> batch[fi], status |-> r.status,
                         error |-> r.error, steps |-> r.steps]
              /\ pc' = AfterFile(r.status)
              /\ fi' = IF AfterFile(r.status) = "file" THEN fi + 1 ELSE fi
              /\ log' = log \o << [ev |-> "process_file", name |-> batch[fi]],
                                  [ev |-> "item", name |-> batch[fi],
                                   stt |-> r.stt_calls, cleanup |-> r.cleanup_calls] >>
    /\ UNCHANGED <<orig, splits, batch, segs, si, runs>>

ProcessFileUnsplit == ProcessFileUnsplitWith(PipelineStt, PipelineCleanup)

\* one iteration of "for split_file in split_files"
ProcessSegmentWith(stts, cleanups) ==
    /\ pc = "seg"
    /\ \E stt \in stts : \E cleanup \in cleanups :
          \E r \in {HandleItem(trans, segs[si], splits[segs[si]], stt, cleanup)} :
          \E next \in {AfterSegment(r.status)} :
              /\ trans' = r.dir
              /\ calls' = [NoCalls EXCEPT !.stt = r.stt_calls, !.cleanup = r.cleanup_calls]
              /\ ret' = [op |-> "item", name |-> segs[si], status |-> r.status,
                         error |-> r.error, steps |-> r.steps]
              /\ IF next = "seg"
                 THEN /\ si' = si + 1
                      /\ pc' = "seg"
                      /\ fi' = fi
                 ELSE /\ si' = si
                      /\ pc' = AfterFile("ok")
                      /\ fi' = IF AfterFile("ok") = "file" THEN fi + 1 ELSE fi
              /\ log' = Append(log, [ev |-> "item", name |-> segs[si],
                                     stt |-> r.stt_calls, cleanup |-> r.cleanup_calls])
    /\ UNCHANGED <<orig, splits, batch, segs, runs>>

ProcessSegment == ProcessSegmentWith(PipelineStt, PipelineCleanup)


\* main, line 56
Merge ==
    /\ pc = "merge"
    /\ trans' \in MergeTranscripts(trans)
    /\ calls' = [NoCalls EXCEPT !.merge = 1]
    /\ log' = Append(log, [ev |-> "merge"])
    /\ ret' = [op |-> "merge", before |-> trans]
    /\ pc' = "verify"
    /\ UNCHANGED <<orig, splits, batch, fi, segs, si, runs>>

\* main, lines 58-73: the three files required of every source
VerifyMerged(dir, original_files) ==
    \A i \in 1..Len(original_files) :
        LET base_name == GetBaseFilename(original_files[i])
        IN  /\ Exists(dir, base_name \o DOT_TXT)
            /\ Exists(dir, base_name \o DOT_JSON)
            /\ Exists(dir, base_name \o DOT_CLEAN_TXT)

Verify ==
    /\ pc = "verify"
    /\ pc' = IF VerifyMerged(trans, batch) THEN "done" ELSE "fatal"
    /\ calls' = NoCalls
    /\ ret' = [op |-> "verify"]
    /\ UNCHANGED <<orig, splits, trans, batch, fi, segs, si, log, runs>>

Next ==
    \/ MainStart
    \/ ProcessFileSplit
    \/ ProcessFileUnsplit
    \/ ProcessSegment
    \/ Merge
    \/ Verify

Spec == Init /\ [][Next]_vars


(***************************************************************************)
(* SpecTranscribe: one call of transcribe_file, for every retry budget,    *)
(* file size around the limit and behaviour of the remote capability.      *)
(***************************************************************************)
TranscribeSizes == {SmallSize, MAX_FILE_SIZE - 1, MAX_FILE_SIZE, MAX_FILE_SIZE + 1}

\* what one call of the remote capability can do
SttOutcomes == {Ok(<<"t">>), Ok(<<>>), Raise("E1"), Raise("E2")}

InitTranscribe ==
    /\ orig = EmptyDir
    /\ splits = EmptyDir
    /\ trans = EmptyDir
    /\ pc = "transcribe"
    /\ batch = <<>>
    /\ fi = 0
    /\ segs = <<>>
    /\ si = 0
    /\ calls = NoCalls
    /\ log = <<>>
    /\ runs = 0
    /\ ret = [op |-> "none"]

TranscribeCall ==
    /\ pc = "transcribe"
    /\ \E exists \in BOOLEAN, size \in TranscribeSizes, retries \in 1..MaxRetries :
       \E outcomes \in [1..retries -> SttOutcomes] :
       \E r \in {TranscribeFile(exists, SrcA, size, retries, outcomes)} :
          /\ ret' = [op |-> "transcribe", exists |-> exists, size |-> size,
                     retries |-> retries, outcomes |-> outcomes, result |-> r]
          /\ calls' = [NoCalls EXCEPT !.stt = r.calls]
    /\ pc' = "transcribed"
    /\ UNCHANGED <<orig, splits, trans, batch, fi, segs, si, log, runs>>

NextTranscribe == TranscribeCall

SpecTranscribe == InitTranscribe /\ [][NextTranscribe]_vars

\* the number of failures before the first answer of the capability
LeadingFailures(outcomes) ==
    IF \E i \in 1..Len(outcomes) : outcomes[i].kind = "ok"
    THEN (CHOOSE i \in 1..Len(outcomes) :
             /\ outcomes[i].kind = "ok"
             /\ \A j \in 1..(i - 1) : outcomes[j].kind = "raise") - 1
    ELSE Len(outcomes)

\* C4: with a retry budget N >= 1 on an existing file below the size limit,
\* k < N failures followed by a success return that success's text and
\* metadata after exactly k + 1 invocations; N failures in a row raise the
\* last failure's own exception after exactly N invocations; there are never
\* more than N invocations in one call.
C4_RetryBudget ==
    (ret.op = "transcribe" /\ ret.exists /\ ret.size < MAX_FILE_SIZE) =>
        LET N == ret.retries
            k == LeadingFailures(ret.outcomes)
        IN  /\ ret.result.calls <= N
            /\ calls.stt = ret.result.calls
            /\ k < N =>
                  /\ ret.result.status = "ok"
                  /\ ret.result.text = ret.outcomes[k + 1].text
                  /\ ret.result.metadata.text = ret.outcomes[k + 1].text
                  /\ ret.result.calls = k + 1
            /\ k = N =>
                  /\ ret.result.status = "raised"
                  /\ ret.result.error = ret.outcomes[N].err
                  /\ ret.result.calls = N

\* three failures against a budget of three, the last one of another kind
C4_Witness ==
    /\ ret.op = "transcribe"
    /\ ret.exists
    /\ ret.size < MAX_FILE_SIZE
    /\ ret.retries = DefaultRetries
    /\ ret.outcomes = <<Raise("E1"), Raise("E1"), Raise("E2")>>
    /\ ret.result.status = "raised"
    /\ ret.result.error = "E2"
    /\ ret.result.calls = DefaultRetries

\* C5: on a file whose size is at or above 25 MiB transcribe_file fails at
\* once with the size-limit error: no invocation of the remote capability,
\* no backoff wait and no retry, whatever the retry budget.
C5_OversizeFailsAtOnce ==
    (ret.op = "transcribe" /\ ret.exists /\ ret.size >= MAX_FILE_SIZE) =>
        /\ ret.result.status = "raised"
        /\ ret.result.error = "SizeLimit"
        /\ ret.result.calls = 0
        /\ calls.stt = 0
        /\ ret.result.sleeps = <<>>

\* a file of exactly 25 MiB, a budget above one and a capability that would
\* have answered
C5_Witness ==
    /\ ret.op = "transcribe"
    /\ ret.exists
    /\ ret.size = MAX_FILE_SIZE
    /\ ret.retries > 1
    /\ ret.outcomes[1].kind = "ok"
    /\ ret.result.status = "raised"
    /\ ret.result.calls = 0


(***************************************************************************)
(* SpecSplit: two successive calls of split_audio over an output           *)
(* directory that may already hold segment files.                          *)
(***************************************************************************)
SrcAWav == NameA \o DOT_WAV                               \* a.wav
SrcAM4a == NameA \o DOT_M4A                               \* a.m4a
SrcBMp3 == <<"b">> \o DOT_MP3                             \* b.mp3

SplitOrig ==
    (SrcAWav :> MAX_FILE_SIZE + 1) @@ (SrcAM4a :> MAX_FILE_SIZE + 1)
        @@ (SrcBMp3 :> MAX_FILE_SIZE + 1)

\* the files split_audio may be asked to split; c.mp3 does not exist
SplitSources == {SrcAWav, SrcAM4a, SrcBMp3, <<"c">> \o DOT_MP3}

\* names an output directory may hold before the first call
SplitNames ==
    { NameA \o P001 \o DOT_MP3,                               \* a_part001.mp3
      NameA \o P000 \o DOT_MP3,                               \* a_part000.mp3
      NameA \o UPART \o <<"1">> \o P000 \o DOT_MP3,           \* a_part1_part000.mp3
      NameA \o UPART \o <<"x">> \o DOT_MP3,                   \* a_partx.mp3
      NameA \o P000 \o DOT_WAV,                               \* a_part000.wav
      <<"b">> \o P000 \o DOT_MP3 }                            \* b_part000.mp3

SplitDirs ==
    {[n \in S |-> SmallSize] : S \in {T \in SUBSET SplitNames : Cardinality(T) < MaxDirFiles}}

\* bit rates the probe may report: the least one, one below and the two
\* around the rate at which the size-based duration meets the ceiling
\* (5 * 8 * 1024 * 1024 / 600 = 69905.07), and uncompressed CD audio
BitRates == {1, 64000, 69905, 69906, 1411200}

BadProbe(bit_rate, duration) == [kind |-> "info", bit_rate |-> bit_rate, duration |-> duration]

\* what the probe, the segmenter and the converter may do during one call
SplitExts ==
    {[convert |-> c, probe |-> GoodProbe, unlink_ok |-> TRUE,
      seg |-> [kind |-> "ok", sizes |-> [i \in 1..k |-> SmallSize]]]
        : k \in 0..MaxSegs, c \in {"ok", "error", "timeout_partial"}}
    \cup
    {[convert |-> "ok", probe |-> GoodProbe, unlink_ok |-> u,
      seg |-> [kind |-> kind, sizes |-> <<SmallSize>>]]
        : kind \in {"error", "timeout"}, u \in BOOLEAN}
    \cup
    {[convert |-> "ok", probe |-> p, unlink_ok |-> TRUE, seg |-> [kind |-> "ok", sizes |-> <<SmallSize>>]]
        : p \in { [kind |-> "error"], [kind |-> "timeout"], [kind |-> "invalid_json"],
                  BadProbe([tag |-> "int", val |-> 0], [tag |-> "num", val |-> 300]),
                  BadProbe([tag |-> "int", val |-> -1], [tag |-> "num", val |-> 300]),
                  BadProbe([tag |-> "nonnumeric"], [tag |-> "num", val |-> 300]),
                  BadProbe([tag |-> "missing"], [tag |-> "num", val |-> 300]),
                  BadProbe([tag |-> "int", val |-> 128000], [tag |-> "missing"]),
                  BadProbe([tag |-> "int", val |-> 128000], [tag |-> "nonnumeric"]),
                  BadProbe([tag |-> "int", val |-> 128000], [tag |-> "num", val |-> 0]),
                  BadProbe([tag |-> "int", val |-> 128000], [tag |-> "null"]),
                  BadProbe([tag |-> "nostreams"], [tag |-> "num", val |-> 300]),
                  BadProbe([tag |-> "null"], [tag |-> "num", val |-> 300]),
                  BadProbe([tag |-> "null"], [tag |-> "missing"]) }}
    \cup
    {[convert |-> "ok", unlink_ok |-> TRUE, seg |-> [kind |-> "ok", sizes |-> <<SmallSize>>],
      probe |-> BadProbe([tag |-> "int", val |-> b], [tag |-> "num", val |-> 300])]
        : b \in BitRates}

InitSplit ==
    /\ orig = SplitOrig
    /\ splits \in SplitDirs
    /\ trans = EmptyDir
    /\ pc = "split"
    /\ batch = <<>>
    /\ fi = 0
    /\ segs = <<>>
    /\ si = 0
    /\ calls = NoCalls
    /\ log = <<>>
    /\ runs = 0
    /\ ret = [op |-> "none"]

\* split_audio(file, data/splits); log keeps what each call returned
SplitCall ==
    /\ pc \in {"split", "split_again"}
    /\ \E file \in SplitSources, ext \in SplitExts :
       \E r \in {SplitAudio(orig, splits, file, ext)} :
          /\ orig' = r.orig
          /\ splits' = r.splits
          /\ calls' = [NoCalls EXCEPT !.probe = r.probe_calls,
                                      !.segmenter = r.segmenter_calls,
                                      !.convert = r.convert_calls]
          /\ ret' = [op |-> "split_audio", file |-> file, orig_before |-> orig,
                     splits_before |-> splits, status |-> r.status, result |-> r.result,
                     error |-> IF r.status = "raised" THEN r.error ELSE "none",
                     ext |-> ext, divided |-> r.divided,
                     segment_duration |-> r.segment_duration]
          /\ log' = Append(log, [file |-> file, status |-> r.status, result |-> r.result,
                                 segmenter_calls |-> r.segmenter_calls])
    /\ pc' = IF pc = "split" THEN "split_again" ELSE "split_done"
    /\ UNCHANGED <<trans, batch, fi, segs, si, runs>>

NextSplit == SplitCall

SpecSplit == InitSplit /\ [][NextSplit]_vars

\* the segment files of a source's stem: <stem>_part*.mp3
SegmentFilesOf(dir, file) ==
    {n \in DOMAIN dir :
        /\ Len(n) >= Len(Stem(file)) + Len(UPART) + Len(DOT_MP3)
        /\ SubSeq(n, 1, Len(Stem(file)) + Len(UPART)) = Stem(file) \o UPART
        /\ SubSeq(n, Len(n) - Len(DOT_MP3) + 1, Len(n)) = DOT_MP3}

IsSourceFile(file) == Suffix(file) \in SUPPORTED_FORMATS

\* C2: when split_audio is called for a source file while segment files of
\* its stem exist in the output directory, it returns exactly those files in
\* ascending lexicographic order, runs neither the probe nor the segmenter
\* and creates or deletes no file; two successive calls for one source file
\* return the same list, with at most one run of the segmenter in total.
C2_SplitIdempotent ==
    /\ (/\ ret.op = "split_audio"
        /\ IsSourceFile(ret.file)
        /\ SegmentFilesOf(ret.splits_before, ret.file) # {}) =>
            /\ ret.status = "ok"
            /\ {ret.result[i] : i \in 1..Len(ret.result)}
                   = SegmentFilesOf(ret.splits_before, ret.file)
            /\ \A i \in 1..(Len(ret.result) - 1) : StrLess(ret.result[i], ret.result[i + 1])
            /\ calls.probe = 0
            /\ calls.segmenter = 0
            /\ splits = ret.splits_before
            /\ orig = ret.orig_before
    /\ (/\ Len(log) = 2
        /\ log[1].file = log[2].file
        /\ IsSourceFile(log[1].file)
        /\ log[1].status = "ok") =>
            /\ log[2].status = "ok"
            /\ log[2].result = log[1].result
            /\ log[1].segmenter_calls + log[2].segmenter_calls <= 1

\* a.wav split into two segments by the first call and asked for again,
\* while the tools would now fail
C2_Witness ==
    /\ Len(log) = 2
    /\ log[1].file = SrcAWav
    /\ log[2].file = SrcAWav
    /\ log[1].segmenter_calls = 1
    /\ log[2].status = "ok"
    /\ Len(log[2].result) = 2
    /\ calls = NoCalls
    /\ splits = ret.splits_before


(***************************************************************************)
(* Claims about the batch run (Spec)                                       *)
(***************************************************************************)
\* the orchestrator stands before a segment or an unsplit source file
AtItem == pc = "seg" \/ (pc = "file" /\ orig[batch[fi]] <= MAX_FILE_SIZE)

ReachedItem == IF pc = "seg" THEN segs[si] ELSE batch[fi]

ItemComplete(dir, item) ==
    /\ FileState(dir, Stem(item) \o DOT_TXT) = "nonzero"
    /\ FileState(dir, Stem(item) \o DOT_JSON) = "nonzero"

\* C1: in any sequence of runs, when the orchestrator reaches a segment or
\* an unsplit source file whose raw-text and metadata artifacts both exist
\* with non-zero size, the step skips it: the speech-to-text capability and
\* the cleanup capability are not invoked and no artifact is rewritten.
C1_CompleteItemSkipped ==
    [][ (AtItem /\ ItemComplete(trans, ReachedItem)) =>
            /\ calls'.stt = 0
            /\ calls'.cleanup = 0
            /\ trans' = trans
            /\ ret'.status = "skipped" ]_vars

\* a second run skips an item the first run completed
C1_Witness ==
    /\ runs = 2
    /\ ret.op = "item"
    /\ ret.status = "skipped"
    /\ ItemComplete(trans, ret.name)
    /\ calls = NoCalls

\* the names of the files passed to process_file so far in this run
ProcessFileNames ==
    LET sel == SelectSeq(log, LAMBDA e : e.ev = "process_file")
    IN  [i \in 1..Len(sel) |-> sel[i].name]

BatchOver == pc \in {"merge", "verify", "done", "fatal"}

\* C6: in a batch run every discovered source file is passed to
\* process_file exactly once, in order, whatever failed before it, and
\* within a split source every segment is attempted, whatever failed before
\* it.
C6_FailureIsolation ==
    /\ Len(ProcessFileNames) <= Len(batch)
    /\ ProcessFileNames = SubSeq(batch, 1, Len(ProcessFileNames))
    /\ BatchOver => ProcessFileNames = batch
    /\ \A p \in 1..Len(log) :
          (/\ log[p].ev = "split_files"
           /\ BatchOver \/ \E q \in (p + 1)..Len(log) : log[q].ev = "process_file") =>
              \A k \in 1..Len(log[p].names) :
                  /\ p + k <= Len(log)
                  /\ log[p + k].ev = "item"
                  /\ log[p + k].name = log[p].names[k]

\* in the first run the first segment of a split source failed before
\* anything was written for it and the second one was transcribed
C6_Witness ==
    /\ runs = 1
    /\ BatchOver
    /\ \E p \in 1..Len(log) :
          /\ log[p].ev = "split_files"
          /\ Len(log[p].names) >= 2
          /\ ~Exists(trans, Stem(log[p].names[1]) \o DOT_TXT)
          /\ ItemComplete(trans, log[p].names[2])

MergeEvents == {p \in 1..Len(log) : log[p].ev = "merge"}

\* every merge of this run came after process_file was called for every
\* file of the batch
MergeAfterBatch ==
    \A p \in MergeEvents :
        LET sel == SelectSeq(SubSeq(log, 1, p - 1), LAMBDA e : e.ev = "process_file")
        IN  [i \in 1..Len(sel) |-> sel[i].name] = batch

RunOver == pc \in {"done", "fatal"} /\ runs > 0

\* C7 as stated: in every execution of main merge_transcripts is invoked
\* exactly once, after process_file was attempted for every source file,
\* whatever the batch contains.
C7_MergeOnceEveryRun ==
    /\ MergeAfterBatch
    /\ RunOver => Cardinality(MergeEvents) = 1

\* C7: in every execution of main that finds at least one source file,
\* merge_transcripts is invoked exactly once, after process_file was
\* attempted for every source file, whatever failed; an execution that
\* finds no source file returns without invoking it.
C7_MergeOnceNonEmptyBatch ==
    /\ MergeAfterBatch
    /\ Cardinality(MergeEvents) <= 1
    /\ (RunOver /\ batch # <<>>) => Cardinality(MergeEvents) = 1
    /\ (RunOver /\ batch = <<>>) => Cardinality(MergeEvents) = 0

\* a run over two files in which nothing could be transcribed still merged
C7_Witness ==
    /\ pc = "fatal"
    /\ Len(batch) = 2
    /\ trans = EmptyDir
    /\ Cardinality(MergeEvents) = 1
    /\ log[Len(log)].ev = "merge"


(***************************************************************************)
(* Further claims about the transcript manager (SpecDir)                   *)
(***************************************************************************)
\* the files a merge created or gave another content
WrittenByMerge == {n \in DOMAIN trans : n \notin DOMAIN ret.before \/ trans[n] # ret.before[n]}

\* doc has an empty paragraph: it starts or ends with the separator or holds
\* two separators in a row
HasEmptyParagraph(doc) ==
    \/ StartsWith(doc, SEP)
    \/ EndsWith(doc, SEP)
    \/ Contains(doc, SEP \o SEP)

\* C11: merge_transcripts never writes a merged document with empty content:
\* a part that is empty after stripping adds no paragraph (no two separators
\* in a row), and a variant of a series without any surviving part gets no
\* merged file written.
C11_MergeNeverWritesEmpty ==
    ret.op = "merge" =>
        /\ \A n \in WrittenByMerge : trans[n] # <<>> /\ ~HasEmptyParagraph(trans[n])
        /\ DOMAIN ret.before \subseteq DOMAIN trans
        /\ \A series \in SeriesNames(ret.before) : \A clean \in BOOLEAN :
              Surviving(ret.before, series, clean) = {} =>
                  series \o Ext(clean) \notin WrittenByMerge

\* the only raw part of series a holds white space, its cleaned part holds
\* text: a.clean.txt is written and a.txt is not
C11_Witness ==
    /\ ret.op = "merge"
    /\ DOMAIN ret.before = {NameA \o P000 \o DOT_TXT, NameA \o P000 \o DOT_CLEAN_TXT}
    /\ ret.before[NameA \o P000 \o DOT_TXT] = <<" ">>
    /\ NameA \o DOT_CLEAN_TXT \in DOMAIN trans
    /\ NameA \o DOT_TXT \notin DOMAIN trans


(***************************************************************************)
(* SpecSave: save_transcript on a transcript directory, followed by        *)
(* check_existing_transcripts for the same file or by clean_transcript on  *)
(* the text file it wrote.  log keeps the calls in order.                  *)
(***************************************************************************)
SrcAbWav == <<"A", ".", "b">> \o DOT_WAV                  \* A.b.wav
SrcNoExt == <<"n">>                                       \* n

SaveFiles == {SrcA, SrcAbWav, SrcNoExt, NameA \o P000 \o DOT_MP3}

\* an answer, no text, text with characters that JSON escapes
SaveTexts == { <<"t">>, <<>>, <<"\"", "\\">>, <<"x", "\n", ",">> }

\* what the directory may hold before the call
SaveDirs ==
    { EmptyDir,
      (<<"A", ".", "b">> \o DOT_TXT :> <<"o">>) @@ (<<"A", ".", "b">> \o DOT_JSON :> <<>>),
      (<<"A", ".", "b">> \o DOT_CLEAN_TXT :> <<"o">>),
      (<<"A">> \o DOT_TXT :> <<"o">>) @@ (NameA \o DOT_CLEAN_TXT :> <<>>) }

InitSave ==
    /\ orig = EmptyDir
    /\ splits = EmptyDir
    /\ trans \in SaveDirs
    /\ pc = "save"
    /\ batch = <<>>
    /\ fi = 0
    /\ segs = <<>>
    /\ si = 0
    /\ calls = NoCalls
    /\ log = <<>>
    /\ runs = 0
    /\ ret = [op |-> "none"]

SaveCall ==
    /\ pc = "save"
    /\ \E file \in SaveFiles, text \in SaveTexts :
       \E metadata \in {ResponseDict(text, file, SmallSize)} :
       \E r \in {SaveTranscript(trans, text, metadata, file)} :
          /\ trans' = r.dir
          /\ ret' = [op |-> "save", file |-> file, text |-> text, metadata |-> metadata,
                     before |-> trans, status |-> r.status,
                     error |-> IF r.status = "raised" THEN r.error ELSE "none",
                     txt_path |-> IF r.status = "ok" THEN r.txt_path ELSE <<>>,
                     json_path |-> IF r.status = "ok" THEN r.json_path ELSE <<>>]
    /\ log' = Append(log, ret')
    /\ calls' = NoCalls
    /\ pc' = "saved"
    /\ UNCHANGED <<orig, splits, batch, fi, segs, si, runs>>

\* check_existing_transcripts for the file just saved
CheckAfterSave ==
    /\ pc = "saved"
    /\ ret' = [op |-> "check", file |-> ret.file, before |-> trans,
               result |-> CheckExistingTranscripts(trans, ret.file)]
    /\ log' = Append(log, ret')
    /\ calls' = NoCalls
    /\ pc' = "checked"
    /\ UNCHANGED <<orig, splits, trans, batch, fi, segs, si, runs>>

\* clean_transcript(txt_path) on the path save_transcript returned
CleanAfterSave ==
    /\ pc = "saved"
    /\ ret.status = "ok"
    /\ \E cleanup \in PipelineCleanup :
       \E r \in {CleanTranscript(trans, ret.txt_path, DefaultRetries, cleanup)} :
          /\ trans' = r.dir
          /\ calls' = [NoCalls EXCEPT !.cleanup = r.calls]
          /\ ret' = [op |-> "clean", transcript_path |-> ret.txt_path, before |-> trans,
                     status |-> r.status,
                     error |-> IF r.status = "raised" THEN r.error ELSE "none",
                     clean_path |-> IF r.status = "ok" THEN r.clean_path ELSE <<>>]
    /\ log' = Append(log, ret')
    /\ pc' = "cleaned"
    /\ UNCHANGED <<orig, splits, batch, fi, segs, si, runs>>

NextSave == SaveCall \/ CheckAfterSave \/ CleanAfterSave

SpecSave == InitSave /\ [][NextSave]_vars

\* the directory right after the save of log[1]
AfterSave == IF Len(log) = 1 THEN trans ELSE log[2].before

\* C12: save_transcript returns normally only if, after the write, the text
\* and the metadata artifact both exist with non-zero size, and then
\* check_existing_transcripts for the same file answers true; when either is
\* missing or empty after the write (an empty text) it raises RuntimeError.
C12_SaveVerifies ==
    Len(log) >= 1 =>
        LET save    == log[1]
            txt     == Stem(save.file) \o DOT_TXT
            json    == Stem(save.file) \o DOT_JSON
            durable == /\ FileState(AfterSave, txt) = "nonzero"
                       /\ FileState(AfterSave, json) = "nonzero"
        IN  /\ save.status = "ok" <=> durable
            /\ save.status = "raised" <=> ~durable
            /\ save.status = "raised" => save.error = "RuntimeError"
            /\ save.text = <<>> => save.status = "raised"
            /\ (Len(log) = 2 /\ log[2].op = "check") =>
                  (log[2].result <=> save.status = "ok")

\* a save of an empty text over a directory that held a complete older
\* transcript of the file: the text file is now empty and the call raised
C12_Witness ==
    /\ Len(log) = 2
    /\ log[1].status = "raised"
    /\ log[1].text = <<>>
    /\ log[1].file = SrcAbWav
    /\ FileState(trans, <<"A", ".", "b">> \o DOT_TXT) = "zero"
    /\ FileState(trans, <<"A", ".", "b">> \o DOT_JSON) = "nonzero"
    /\ log[2].op = "check"
    /\ log[2].result = FALSE

\* name = base \o ext where ext is the final extension: a period followed by
\* at least one character and no further period, after a non-empty base
SplitsAtFinalExtension(name, base, ext) ==
    /\ name = base \o ext
    /\ base # <<>>
    /\ Len(ext) >= 2
    /\ ext[1] = "."
    /\ \A i \in 2..Len(ext) : ext[i] # "."

\* base is name without its final extension; name itself when it has none
IsBaseOf(base, name) ==
    \/ \E k \in 1..Len(name) :
          /\ base = SubSeq(name, 1, k)
          /\ SplitsAtFinalExtension(name, base, SubSeq(name, k + 1, Len(name)))
    \/ /\ base = name
       /\ \A k \in 1..Len(name) :
             ~SplitsAtFinalExtension(name, SubSeq(name, 1, k), SubSeq(name, k + 1, Len(name)))

RawA == NameA \o DOT_TXT                                  \* a.txt
RawB == <<"b">> \o DOT_TXT                                \* b.txt
CleanOfA == NameA \o DOT_CLEAN_TXT                        \* a.clean.txt

\* transcript directories: a.txt alone, with a cleaned file, with an empty
\* cleaned file; b.txt is in none of them
CleanDirs ==
    { (RawA :> <<"t">>),
      (RawA :> <<"t">>) @@ (CleanOfA :> <<"o">>),
      (RawA :> <<"t">>) @@ (CleanOfA :> <<>>) }

\* what one call of the cleanup capability can do: a rewrite, a response
\* without content, a white-space response, a failure
CleanOutcomes == {Reply(<<"c", " ">>), Reply(<<>>), Reply(<<" ">>), Raise("E1")}

InitClean ==
    /\ orig = EmptyDir
    /\ splits = EmptyDir
    /\ trans \in CleanDirs
    /\ pc = "clean"
    /\ batch = <<>>
    /\ fi = 0
    /\ segs = <<>>
    /\ si = 0
    /\ calls = NoCalls
    /\ log = <<>>
    /\ runs = 0
    /\ ret = [op |-> "none"]

CleanCall ==
    /\ pc = "clean"
    /\ Len(log) < MaxRuns
    /\ \E transcript_path \in {RawA, RawB}, retries \in 1..MaxRetries :
       \E outcomes \in [1..retries -> CleanOutcomes] :
       \E r \in {CleanTranscript(trans, transcript_path, retries, outcomes)} :
          /\ trans' = r.dir
          /\ calls' = [NoCalls EXCEPT !.cleanup = r.calls]
          /\ ret' = [op |-> "clean", transcript_path |-> transcript_path,
                     retries |-> retries, outcomes |-> outcomes, before |-> trans,
                     status |-> r.status,
                     error |-> IF r.status = "raised" THEN r.error ELSE "none",
                     clean_path |-> IF r.status = "ok" THEN r.clean_path ELSE <<>>]
          /\ log' = Append(log, [transcript_path |-> transcript_path, status |-> r.status,
                                 calls |-> r.calls])
    /\ UNCHANGED <<orig, splits, pc, batch, fi, segs, si, runs>>

NextClean == CleanCall

SpecClean == InitClean /\ [][NextClean]_vars

\* the cleaned artifact of a raw transcript <stem>.txt
CleanedArtifact(transcript_path) == Stem(transcript_path) \o DOT_CLEAN_TXT

\* C14: when the cleaned artifact of a raw transcript exists at the call,
\* clean_transcript returns its path with no invocation of the cleanup
\* capability and leaves every file as it was; after one success any
\* further call for the same transcript makes no remote call.
C14_CleanSkipsExisting ==
    /\ (/\ ret.op = "clean"
        /\ ret.transcript_path \in DOMAIN ret.before
        /\ CleanedArtifact(ret.transcript_path) \in DOMAIN ret.before) =>
            /\ ret.status = "ok"
            /\ ret.clean_path = CleanedArtifact(ret.transcript_path)
            /\ calls.cleanup = 0
            /\ trans = ret.before
    /\ \A i, j \in 1..Len(log) :
          (/\ i < j
           /\ log[i].status = "ok"
           /\ log[i].transcript_path = log[j].transcript_path) =>
              /\ log[j].status = "ok"
              /\ log[j].calls = 0

\* a second call after a first one that wrote the cleaned file, with a
\* capability that would now fail
C14_Witness ==
    /\ Len(log) = 2
    /\ log[1].status = "ok"
    /\ log[1].calls = 2
    /\ log[2].transcript_path = log[1].transcript_path
    /\ ret.outcomes[1].kind = "raise"
    /\ ret.status = "ok"
    /\ calls.cleanup = 0

\* the number of raised or invalid responses before the first valid one
LeadingCleanFailures(outcomes) ==
    LET valid(i) == outcomes[i].kind = "ok" /\ outcomes[i].content # <<>>
    IN  IF \E i \in 1..Len(outcomes) : valid(i)
        THEN (CHOOSE i \in 1..Len(outcomes) :
                 valid(i) /\ \A j \in 1..(i - 1) : ~valid(j)) - 1
        ELSE Len(outcomes)

\* C15: with a retry budget N on a raw transcript without cleaned artifact,
\* k < N raised or invalid responses followed by a valid one write the
\* cleaned artifact from that response after exactly k + 1 invocations; N
\* failures in a row raise the last error (ValueError for an invalid
\* response, the remote error otherwise) after exactly N invocations, and
\* no cleaned artifact is created.
C15_CleanRetryBudget ==
    (/\ ret.op = "clean"
     /\ ret.transcript_path \in DOMAIN ret.before
     /\ CleanedArtifact(ret.transcript_path) \notin DOMAIN ret.before) =>
        LET N     == ret.retries
            k     == LeadingCleanFailures(ret.outcomes)
            clean == CleanedArtifact(ret.transcript_path)
        IN  /\ calls.cleanup <= N
            /\ k < N =>
                  /\ ret.status = "ok"
                  /\ calls.cleanup = k + 1
                  /\ trans = WriteFile(ret.before, clean, Strip(ret.outcomes[k + 1].content))
            /\ k = N =>
                  /\ ret.status = "raised"
                  /\ calls.cleanup = N
                  /\ ret.error = (IF ret.outcomes[N].kind = "raise"
                                  THEN ret.outcomes[N].err ELSE "ValueError")
                  /\ trans = ret.before

\* a failure, then two responses without content, against a budget of three
C15_Witness ==
    /\ ret.op = "clean"
    /\ ret.retries = DefaultRetries
    /\ ret.outcomes = <<Raise("E1"), Reply(<<>>), Reply(<<>>)>>
    /\ ret.status = "raised"
    /\ ret.error = "ValueError"
    /\ calls.cleanup = DefaultRetries
    /\ CleanOfA \notin DOMAIN trans


(***************************************************************************)
(* Claims about failures of split_audio (SpecSplit)                        *)
(***************************************************************************)
\* the last call failed after it had looked for segment files of the source
\* and found none
FailedAfterCheck ==
    /\ ret.op = "split_audio"
    /\ ret.status = "raised"
    /\ SegmentFilesOf(ret.splits_before, ret.file) = {}
    /\ IsSourceFile(ret.file) \/ calls.probe = 1

\* the step of the last call that failed first, as the tools behaved
OriginalFailure ==
    IF IsSourceFile(ret.file) /\ ~Exists(ret.orig_before, ret.file) THEN "AUDIO_FILE_NOT_FOUND"
    ELSE IF ret.ext.probe.kind = "error" THEN "COMMAND_ERROR"
    ELSE IF ret.ext.probe.kind = "timeout" THEN "TIMEOUT_ERROR"
    ELSE IF ret.ext.probe.kind = "invalid_json" THEN "INVALID_JSON_ERROR"
    ELSE IF ret.ext.probe.bit_rate.tag = "nostreams" THEN "IndexError"
    ELSE IF ret.ext.probe.bit_rate.tag = "null" THEN "TypeError"
    ELSE IF ret.ext.probe.bit_rate.tag # "int" \/ ret.ext.probe.bit_rate.val <= 0
    THEN "INVALID_BITRATE_ERROR"
    ELSE IF ret.ext.probe.duration.tag = "null" THEN "TypeError"
    ELSE IF ret.ext.probe.duration.tag # "num" \/ ret.ext.probe.duration.val <= 0
    THEN "INVALID_DURATION_ERROR"
    ELSE IF ret.ext.seg.kind = "error" THEN "SPLIT_ERROR"
    ELSE IF ret.ext.seg.kind = "timeout" THEN "TIMEOUT_ERROR"
    ELSE "NO_SPLITS_ERROR"

\* C16: when split_audio fails after finding no segment files of the source
\* (missing file, probe failure, invalid metadata, segmenter failure or
\* timeout, no output), the error it raises is the one of the step that
\* failed, whether or not the deletions succeed, and, the deletions
\* succeeding, no <stem>_part*.mp3 file is left in the output directory.
C16_FailedSplitCleansUp ==
    FailedAfterCheck =>
        /\ ret.error = OriginalFailure
        /\ ret.result = <<>>
        /\ ret.ext.unlink_ok => SegmentFilesOf(splits, ret.file) = {}
        /\ \A n \in DOMAIN ret.splits_before : n \in DOMAIN splits
        /\ orig = ret.orig_before \/ ~IsSourceFile(ret.file)

\* the segmenter wrote a_part000.mp3 for a.wav and then failed: the file is
\* gone and the segmenter's error is raised
C16_Witness ==
    /\ FailedAfterCheck
    /\ ret.file = SrcAWav
    /\ ret.ext.seg.kind = "error"
    /\ ret.ext.unlink_ok
    /\ calls.segmenter = 1
    /\ ret.error = "SPLIT_ERROR"
    /\ SegmentFilesOf(splits, ret.file) = {}
    /\ splits = ret.splits_before


\* the last call probed the file and the probe reported a bit rate that is
\* zero, negative, not a number or absent
ProbedBadBitRate ==
    /\ ret.op = "split_audio"
    /\ calls.probe = 1
    /\ ret.ext.probe.kind = "info"
    /\ \/ ret.ext.probe.bit_rate.tag \in {"nonnumeric", "missing"}
       \/ ret.ext.probe.bit_rate.tag = "int" /\ ret.ext.probe.bit_rate.val <= 0

\* C17: when the probe reports a bit rate that is zero, negative, not a
\* number or absent, split_audio raises the invalid-bit-rate error without
\* having evaluated the division by the bit rate, without running the
\* segmenter and without leaving a new file in the output directory.
C17_BadBitRateRejectedBeforeDivision ==
    ProbedBadBitRate =>
        /\ ret.status = "raised"
        /\ ret.error = "INVALID_BITRATE_ERROR"
        /\ ~ret.divided
        /\ ret.segment_duration = NoDuration
        /\ calls.segmenter = 0
        /\ splits = ret.splits_before

\* b.mp3 probed with a bit rate of 0, and then a.wav with a negative one,
\* while the segmenter would have written a segment
C17_Witness ==
    /\ ProbedBadBitRate
    /\ Len(log) = 2
    /\ log[1].file = SrcBMp3
    /\ log[1].status = "raised"
    /\ log[1].segmenter_calls = 0
    /\ ret.file = SrcAWav
    /\ ret.ext.probe.bit_rate.tag = "int"
    /\ ret.ext.probe.bit_rate.val < 0
    /\ ret.ext.seg = [kind |-> "ok", sizes |-> <<SmallSize>>]
    /\ ret.error = "INVALID_BITRATE_ERROR"

\* a / b <= c / d for a, c >= 0 and b, d > 0, by comparing the continued
\* fractions of the two quotients (no product is formed)
RECURSIVE FracLeq(_, _, _, _)
FracLeq(a, b, c, d) ==
    IF a \div b # c \div d THEN a \div b < c \div d
    ELSE IF a % b = 0 THEN TRUE
    ELSE IF c % d = 0 THEN FALSE
    ELSE FracLeq(d, c % d, b, a % b)

FracEq(a, b, c, d) == FracLeq(a, b, c, d) /\ FracLeq(c, d, a, b)

\* the binary64 number x is at most c / d, for c / d either the quotient x
\* was rounded from or a number that is its own binary64 number
FloatLeq(x, c, d) ==
    IF FracEq(x.num, x.den, c, d) THEN x.err <= 0 ELSE FracLeq(x.num, x.den, c, d)

\* the last call handed a duration to the segmenter
HandedDuration ==
    /\ ret.op = "split_audio"
    /\ ret.divided
    /\ calls.segmenter = 1

SizeCeilingBits == MAX_SPLIT_SIZE_MB * 8 * 1024 * 1024

\* the duration handed over is the ceiling, or the size-based quotient as
\* the division yields it, whichever is less; it is positive
DurationIsMin ==
    LET d == ret.segment_duration
        b == ret.ext.probe.bit_rate.val
    IN  /\ b > 0
        /\ d.num > 0
        /\ d.den > 0
        /\ \/ /\ d = [num |-> MAX_SPLIT_DURATION, den |-> 1, err |-> 0]
              /\ FracLeq(MAX_SPLIT_DURATION, 1, SizeCeilingBits, b)
           \/ /\ FracEq(d.num, d.den, SizeCeilingBits, b)
              /\ d.err \in {-1, 0, 1}
              /\ FracLeq(SizeCeilingBits, b, MAX_SPLIT_DURATION, 1)
        /\ FloatLeq(d, MAX_SPLIT_DURATION, 1)

\* C18 (as stated): for every positive bit rate the segment duration handed
\* to the segmenter equals min((MAX_SPLIT_SIZE_MB * 8 * 1024 * 1024) /
\* bitrate, MAX_SPLIT_DURATION), is positive, is at most the duration
\* ceiling, and multiplied by the bit rate is at most the size ceiling in
\* bits.
C18_DurationWithinBothCeilings ==
    HandedDuration =>
        /\ DurationIsMin
        /\ FloatLeq(ret.segment_duration, SizeCeilingBits, ret.ext.probe.bit_rate.val)

\* C18 (amended): for every positive bit rate the segment duration handed to
\* the segmenter equals min((MAX_SPLIT_SIZE_MB * 8 * 1024 * 1024) / bitrate,
\* MAX_SPLIT_DURATION), is positive and is at most the duration ceiling;
\* multiplied by the bit rate it is above the size ceiling in bits only when
\* it is the size-based quotient and the division rounded that quotient up.
C18_SegmentDurationIsMin ==
    HandedDuration =>
        /\ DurationIsMin
        /\ FracLeq(ret.segment_duration.num, ret.segment_duration.den,
                   SizeCeilingBits, ret.ext.probe.bit_rate.val)
        /\ ~FloatLeq(ret.segment_duration, SizeCeilingBits, ret.ext.probe.bit_rate.val) =>
              /\ ret.segment_duration.err = 1
              /\ FracEq(ret.segment_duration.num, ret.segment_duration.den,
                        SizeCeilingBits, ret.ext.probe.bit_rate.val)

\* a bit rate with the size-based duration above the ceiling (69905) in the
\* first call, and then 1411200, whose quotient 29.72154195011338 the
\* division rounds up
C18_Witness ==
    /\ HandedDuration
    /\ Len(log) = 2
    /\ log[1].segmenter_calls = 1
    /\ log[1].file = SrcBMp3
    /\ Len(log[1].result) = 1
    /\ ret.file = SrcAWav
    /\ ret.status = "ok"
    /\ ret.ext.probe.bit_rate.val = 1411200
    /\ ret.segment_duration = [num |-> SizeCeilingBits, den |-> 1411200, err |-> 1]
    /\ ~FracLeq(MAX_SPLIT_DURATION, 1, ret.segment_duration.num, ret.segment_duration.den)



(***************************************************************************)
(* SpecThreads: split_audio called by two threads for one source file and  *)
(* one output directory.                                                   *)
(*                                                                         *)
(* A thread's call is a sequence of steps between which the other thread   *)
(* may run: the look for existing segment files, the probe with its        *)
(* validation, the run of the segmenter, the listing of what it wrote, and *)
(* the deletions of the except clause.  pc maps each thread to its next    *)
(* step, ret holds the lock made by __init__ and what each call returned,  *)
(* log the runs of the tools in order.  No line of split_audio acquires    *)
(* the lock, so no step changes or waits for it.                           *)
(***************************************************************************)
Threads == {1, 2}

ThreadFile == SrcAWav

ThreadDirs == {EmptyDir, (NameA \o P000 \o DOT_MP3) :> SmallSize}

ThreadProbes ==
    {GoodProbe, [kind |-> "error"],
     BadProbe([tag |-> "int", val |-> 0], [tag |-> "num", val |-> 300])}

ThreadSegs ==
    {[kind |-> "ok", sizes |-> [i \in 1..k |-> SmallSize]] : k \in 0..MaxSegs}
    \cup {[kind |-> "error", sizes |-> <<SmallSize>>]}

Running == [status |-> "running", result |-> <<>>, error |-> "none"]

InitThreads ==
    /\ orig = SplitOrig
    /\ splits \in ThreadDirs
    /\ trans = EmptyDir
    /\ pc = [t \in Threads |-> "check"]
    /\ batch = <<>>
    /\ fi = 0
    /\ segs = <<>>
    /\ si = 0
    /\ calls = NoCalls
    /\ log = <<>>
    /\ runs = 0
    /\ ret = [lock |-> "unlocked", call |-> [t \in Threads |-> Running]]

ThreadReturn(t, result) ==
    /\ pc' = [pc EXCEPT ![t] = "done"]
    /\ ret' = [ret EXCEPT !.call[t] = [status |-> "ok", result |-> result, error |-> "none"]]

ThreadFail(t, error) ==
    /\ pc' = [pc EXCEPT ![t] = "cleanup"]
    /\ ret' = [ret EXCEPT !.call[t].error = error]

\* lines 395-402
ThreadCheck(t) ==
    /\ pc[t] = "check"
    /\ IF GetExistingSplits(splits, ThreadFile) # <<>>
       THEN ThreadReturn(t, GetExistingSplits(splits, ThreadFile))
       ELSE pc' = [pc EXCEPT ![t] = "probe"] /\ UNCHANGED ret
    /\ UNCHANGED <<orig, splits, trans, batch, fi, segs, si, calls, log, runs>>

\* lines 404-415
ThreadProbe(t) ==
    /\ pc[t] = "probe"
    /\ \E p \in ThreadProbes :
          /\ log' = Append(log, [thread |-> t, tool |-> "probe"])
          /\ IF GetAudioInfo([probe |-> p]).status = "raised"
             THEN ThreadFail(t, GetAudioInfo([probe |-> p]).error)
             ELSE IF ValidateAudioMetadata(p).status = "raised"
             THEN ThreadFail(t, ValidateAudioMetadata(p).error)
             ELSE pc' = [pc EXCEPT ![t] = "segment"] /\ UNCHANGED ret
    /\ UNCHANGED <<orig, splits, trans, batch, fi, segs, si, calls, runs>>

\* line 427
ThreadSegment(t) ==
    /\ pc[t] = "segment"
    /\ \E seg \in ThreadSegs :
          /\ splits' = SegmenterOutput(splits, Stem(ThreadFile), seg.sizes)
          /\ log' = Append(log, [thread |-> t, tool |-> "segmenter"])
          /\ IF seg.kind = "error"
             THEN ThreadFail(t, "SPLIT_ERROR")
             ELSE pc' = [pc EXCEPT ![t] = "list"] /\ UNCHANGED ret
    /\ UNCHANGED <<orig, trans, batch, fi, segs, si, calls, runs>>

\* lines 429-436
ThreadList(t) ==
    /\ pc[t] = "list"
    /\ IF SplitGlob(splits, Stem(ThreadFile)) = {}
       THEN ThreadFail(t, "NO_SPLITS_ERROR")
       ELSE ThreadReturn(t, SortedPaths(SplitGlob(splits, Stem(ThreadFile))))
    /\ UNCHANGED <<orig, splits, trans, batch, fi, segs, si, calls, log, runs>>

\* lines 438-445
ThreadCleanup(t) ==
    /\ pc[t] = "cleanup"
    /\ splits' = SplitCleanup(splits, Stem(ThreadFile), [unlink_ok |-> TRUE])
    /\ pc' = [pc EXCEPT ![t] = "done"]
    /\ ret' = [ret EXCEPT !.call[t].status = "raised"]
    /\ UNCHANGED <<orig, trans, batch, fi, segs, si, calls, log, runs>>

NextThreads ==
    \E t \in Threads :
        \/ ThreadCheck(t)
        \/ ThreadProbe(t)
        \/ ThreadSegment(t)
        \/ ThreadList(t)
        \/ ThreadCleanup(t)

SpecThreads == InitThreads /\ [][NextThreads]_vars

SegmenterRuns == {i \in 1..Len(log) : log[i].tool = "segmenter"}

\* C19: with two threads in split_audio for the same source file and output
\* directory, the lock keeps one thread's look for existing segments and its
\* split together: the segmenter runs at most once for the file, and the
\* segment files a call has returned are still there when both calls are
\* over.
C19_CheckThenSplitAtomic ==
    /\ Cardinality(SegmenterRuns) <= 1
    /\ (\A t \in Threads : pc[t] = "done") =>
          \A t \in Threads :
              ret.call[t].status = "ok" =>
                  \A i \in 1..Len(ret.call[t].result) : Exists(splits, ret.call[t].result[i])



(***************************************************************************)
(* Claims about resumed runs (Spec)                                        *)
(***************************************************************************)
\* an earlier run left the item with its raw text and metadata and without
\* its cleaned text
LeftUncleaned(dir, item) ==
    /\ runs >= 2
    /\ ItemComplete(dir, item)
    /\ ~Exists(dir, CleanedArtifact(Stem(item) \o DOT_TXT))

\* C20: when a later run reaches a segment or unsplit file that an earlier
\* run left with raw text and metadata but without cleaned text, the step
\* invokes the cleanup capability for it, and, the cleanup succeeding, the
\* cleaned artifact exists afterwards.
C20_LaterRunCleans ==
    [][ (AtItem /\ LeftUncleaned(trans, ReachedItem)) =>
            /\ calls'.cleanup >= 1
            /\ ret'.status = "ok" =>
                  Exists(trans', CleanedArtifact(Stem(ReachedItem) \o DOT_TXT)) ]_vars



(***************************************************************************)
(* Claims about what counts as done (SpecClean)                            *)
(***************************************************************************)
\* the last call of clean_transcript skipped its work
CleanSkipped ==
    /\ ret.op = "clean"
    /\ ret.transcript_path \in DOMAIN ret.before
    /\ ret.status = "ok"
    /\ calls.cleanup = 0

\* C21: a stage skips its work for an artifact only when the artifact exists
\* with non-zero size; in particular clean_transcript does not skip the
\* cleanup call on account of a zero-length cleaned artifact.
C21_SkipOnlyNonZero ==
    CleanSkipped => FileState(ret.before, CleanedArtifact(ret.transcript_path)) = "nonzero"



(***************************************************************************)
(* Claims about sizes (Spec)                                               *)
(***************************************************************************)
\* C22: a supported source file that process_file leaves unsplit is passed
\* to transcribe_file with a size its limit check accepts: no unsplit source
\* file is rejected as exceeding the size limit.
C22_UnsplitSourceAccepted ==
    (/\ ret.op = "item"
     /\ ret.name \in DOMAIN orig
     /\ ret.status = "raised") => ret.error # "SizeLimit"



(***************************************************************************)
(* Claims about the end of a run (Spec)                                    *)
(***************************************************************************)
\* the item has its raw text, its metadata and its cleaned text, each with
\* non-zero size
ItemFinished(dir, item) ==
    /\ ItemComplete(dir, item)
    /\ FileState(dir, Stem(item) \o DOT_CLEAN_TXT) = "nonzero"

\* every source file of the batch, or every one of its segments when it was
\* split, is transcribed, saved and cleaned
BatchFinished ==
    \A i \in 1..Len(batch) :
        IF orig[batch[i]] > MAX_FILE_SIZE
        THEN /\ SplitGlob(splits, Stem(batch[i])) # {}
             /\ \A s \in SplitGlob(splits, Stem(batch[i])) : ItemFinished(trans, s)
        ELSE ItemFinished(trans, batch[i])

\* C23: when every source file of a batch and every one of its segments is
\* transcribed, saved and cleaned, main's verification after the merge finds
\* <stem>.txt, <stem>.json and <stem>.clean.txt for every source file, split
\* or not, and main returns without a fatal error.
C23_VerificationPasses ==
    (RunOver /\ batch # <<>> /\ BatchFinished) => pc = "done"



(***************************************************************************)
(* SpecServed: main() run repeatedly while every call of the remote        *)
(* capabilities returns a result and the local tools split every large     *)
(* file.  The transcribed text may be empty, the rewrite may be white      *)
(* space.                                                                  *)
(***************************************************************************)
ServedStt == {o \in PipelineStt : o[1].kind = "ok"}

ServedCleanup == {o \in PipelineCleanup : o[1].kind = "ok" /\ o[1].content # <<>>}

ServedExts ==
    {e \in PipelineExts : e.probe = GoodProbe /\ e.seg.kind = "ok" /\ e.seg.sizes # <<>>}

NextServed ==
    \/ MainStart
    \/ ProcessFileSplitWith(ServedExts)
    \/ ProcessFileUnsplitWith(ServedStt, ServedCleanup)
    \/ ProcessSegmentWith(ServedStt, ServedCleanup)
    \/ Merge
    \/ Verify

SpecServed == Init /\ [][NextServed]_vars

\* C24: when every remote call of a run over a batch returned a result, the
\* run that follows it over the same batch makes no speech-to-text call and
\* no cleanup call, whatever the transcribed texts were, the empty text
\* included.
C24_SecondRunMakesNoRemoteCall ==
    [][ runs >= 2 => (calls'.stt = 0 /\ calls'.cleanup = 0) ]_vars



(***************************************************************************)
(* Claims about what the merge writes, in a run (Spec)                     *)
(***************************************************************************)
\* the transcript artifacts of one segment or unsplit source file
ArtifactsOf(item) ==
    {Stem(item) \o DOT_TXT, Stem(item) \o DOT_JSON, Stem(item) \o DOT_CLEAN_TXT}

\* the artifacts of the segments in data/splits and of the unsplit sources
\* in data/original
OwnArtifacts ==
    UNION {ArtifactsOf(s) : s \in DOMAIN splits}
    \cup UNION {ArtifactsOf(f) :
                  f \in {g \in DOMAIN orig : /\ Lower(Suffix(g)) \in SUPPORTED_FORMATS
                                             /\ orig[g] <= MAX_FILE_SIZE}}

\* C25: merge_transcripts writes merged series documents only: it creates,
\* truncates or changes no artifact of a segment and no artifact of an
\* unsplit source file.
C25_MergeLeavesOwnArtifacts ==
    [][ pc = "merge" =>
            \A n \in OwnArtifacts :
                /\ n \in DOMAIN trans <=> n \in DOMAIN trans'
                /\ n \in DOMAIN trans => trans'[n] = trans[n] ]_vars



(***************************************************************************)
(* Claims about the series of a merged document (SpecDir)                  *)
(***************************************************************************)
\* the files whose stripped content is text and whose derived series name
\* is not series
ForeignFiles(dir, series) ==
    {n \in DOMAIN dir : GetSeriesName(n) # series /\ Strip(dir[n]) # <<>>}

\* C26: the merged raw and the merged cleaned document written for a series
\* S hold content only of files whose derived series name is S: no content
\* of a part of another series and none of a file that is no part at all.
C26_MergedFromOwnSeriesOnly ==
    ret.op = "merge" =>
        \A series \in SeriesNames(ret.before) : \A clean \in BOOLEAN :
            series \o Ext(clean) \in WrittenByMerge =>
                \A n \in ForeignFiles(ret.before, series) :
                    ~Contains(trans[series \o Ext(clean)], Strip(ret.before[n]))


\* C27: merge_transcripts run twice in succession, with no other change to
\* the directory in between, leaves the directory after the second run as
\* it was after the first, files and contents; no document written by the
\* first run is an input of the second.
C27_MergeIdempotent ==
    (ret.op = "merge" /\ runs = 2) => trans = ret.before



(***************************************************************************)
(* SpecFiles: process_file called for every file of data/original, over    *)
(* and over, with no merge in between.                                     *)
(***************************************************************************)
\* the loop of main, lines 25-53, entered again when it is over
FilesStart == MainStartFrom({"idle", "merge"})

NextFiles ==
    \/ FilesStart
    \/ ProcessFileSplit
    \/ ProcessFileUnsplit
    \/ ProcessSegment

SpecFiles == Init /\ [][NextFiles]_vars

\* the segments in data/splits and the unsplit sources in data/original
Items ==
    DOMAIN splits
    \cup {g \in DOMAIN orig : Lower(Suffix(g)) \in SUPPORTED_FORMATS /\ orig[g] <= MAX_FILE_SIZE}

IsPrefix(s, t) == Len(s) <= Len(t) /\ SubSeq(t, 1, Len(s)) = s

\* C28: starting from an empty transcript directory, in every state reached
\* by runs of process_file the cleaned artifact of a segment or unsplit file
\* exists only if its raw text and its metadata exist with non-zero size;
\* _process_single_file transcribes, then saves, then cleans, and does not
\* invoke the cleanup for an item whose transcription or save failed.
C28_CleanedOnlyAfterSaved ==
    /\ \A item \in Items :
          Exists(trans, Stem(item) \o DOT_CLEAN_TXT) => ItemComplete(trans, item)
    /\ ret.op = "item" =>
          /\ IsPrefix(ret.steps, <<"transcribe", "save", "clean">>)
          /\ calls.cleanup > 0 =>
                /\ ret.steps = <<"transcribe", "save", "clean">>
                /\ calls.stt > 0
                /\ ItemComplete(trans, ret.name)
          /\ (ret.status = "raised" /\ Len(ret.steps) < 3) => calls.cleanup = 0

\* the first segment of a.mp3 has its three artifacts; the text of the
\* second was empty, its save failed and the cleanup was not invoked
C28_Witness ==
    /\ ret.op = "item"
    /\ ret.name = NameA \o P001 \o DOT_MP3
    /\ ret.status = "raised"
    /\ ret.steps = <<"transcribe", "save">>
    /\ calls.stt = 1
    /\ calls.cleanup = 0
    /\ ItemFinished(trans, NameA \o P000 \o DOT_MP3)
    /\ ~Exists(trans, NameA \o P001 \o DOT_CLEAN_TXT)



(***************************************************************************)
(* Claims about the cleaned artifact written (SpecClean)                   *)
(***************************************************************************)
\* C29: when clean_transcript returns for a transcript that had no cleaned
\* artifact, it has written a cleaned artifact of non-zero length: a response
\* whose content is missing, empty or white space only counts as invalid and
\* is never written out as an empty file.
C29_CleanWritesNonEmpty ==
    (/\ ret.op = "clean"
     /\ ret.status = "ok"
     /\ CleanedArtifact(ret.transcript_path) \notin DOMAIN ret.before) =>
        FileState(trans, CleanedArtifact(ret.transcript_path)) = "nonzero"

(***************************************************************************)
(* SpecBackoff: transcribe_file on a.mp3 and, when it returned, then       *)
(* clean_transcript on a.txt, each with its own retry budget and its own   *)
(* behaviour of the remote capability; the waits of time.sleep are         *)
(* recorded per stage.                                                     *)
(***************************************************************************)
NoStage == [ran |-> FALSE, retries |-> 0, outcomes |-> <<>>, status |-> "none",
            sleeps |-> <<>>]

InitBackoff ==
    /\ orig = (SrcA :> SmallSize)
    /\ splits = EmptyDir
    /\ trans = (RawA :> <<"t">>)
    /\ pc = "transcribe"
    /\ batch = <<>>
    /\ fi = 0
    /\ segs = <<>>
    /\ si = 0
    /\ calls = NoCalls
    /\ log = <<>>
    /\ runs = 0
    /\ ret = [op |-> "backoff", stt |-> NoStage, clean |-> NoStage]

BackoffTranscribe ==
    /\ pc = "transcribe"
    /\ \E retries \in 1..MaxRetries :
       \E outcomes \in [1..retries -> SttOutcomes] :
       \E r \in {TranscribeFile(TRUE, SrcA, orig[SrcA], retries, outcomes)} :
          /\ ret' = [ret EXCEPT !.stt = [ran |-> TRUE, retries |-> retries,
                                         outcomes |-> outcomes, status |-> r.status,
                                         sleeps |-> r.sleeps]]
          /\ calls' = [calls EXCEPT !.stt = r.calls]
          /\ pc' = IF r.status = "ok" THEN "clean" ELSE "raised"
    /\ UNCHANGED <<orig, splits, trans, batch, fi, segs, si, log, runs>>

BackoffClean ==
    /\ pc = "clean"
    /\ \E retries \in 1..MaxRetries :
       \E outcomes \in [1..retries -> CleanOutcomes] :
       \E r \in {CleanTranscript(trans, RawA, retries, outcomes)} :
          /\ trans' = r.dir
          /\ ret' = [ret EXCEPT !.clean = [ran |-> TRUE, retries |-> retries,
                                           outcomes |-> outcomes, status |-> r.status,
                                           sleeps |-> r.sleeps]]
          /\ calls' = [calls EXCEPT !.cleanup = r.calls]
          /\ pc' = IF r.status = "ok" THEN "done" ELSE "raised"
    /\ UNCHANGED <<orig, splits, batch, fi, segs, si, log, runs>>

NextBackoff == BackoffTranscribe \/ BackoffClean

SpecBackoff == InitBackoff /\ [][NextBackoff]_vars

\* the waits 30, 60, 120, ... after the first k failed attempts
Schedule(k) == [a \in 1..k |-> 30 * 2^(a - 1)]

\* the failed attempts that are followed by another attempt
Waits(retries, failures) == IF failures < retries THEN failures ELSE retries - 1

\* C30: in transcribe_file and in clean_transcript the failed attempt with
\* zero-based index a < retries - 1 is followed by a wait of 30 * 2^a seconds;
\* there is no wait after the last failed attempt or after a success, and
\* the waits of the cleanup stage start again at 30 whatever the number of
\* failed attempts of the transcription stage was.
C30_BackoffSchedule ==
    /\ ret.stt.ran =>
          ret.stt.sleeps =
             Schedule(Waits(ret.stt.retries, LeadingFailures(ret.stt.outcomes)))
    /\ ret.clean.ran =>
          ret.clean.sleeps =
             Schedule(Waits(ret.clean.retries, LeadingCleanFailures(ret.clean.outcomes)))

\* two failures and a success of transcription (waits 30, 60), then two
\* failures of a cleanup with budget 2 (one wait of 30, none after the last)
C30_Witness ==
    /\ ret.stt.ran /\ ret.stt.retries = 3 /\ ret.stt.status = "ok"
    /\ calls.stt = 3
    /\ ret.stt.sleeps = <<30, 60>>
    /\ ret.clean.ran /\ ret.clean.retries = 2 /\ ret.clean.status = "raised"
    /\ calls.cleanup = 2
    /\ ret.clean.sleeps = <<30>>


(***************************************************************************)
(* SpecRun: runs of main that go on as long as a step is possible (every   *)
(* external call returns), also over two sources with one stem.            *)
(***************************************************************************)
RunDirs ==
    { (SrcA :> SmallSize),
      (SrcA :> MAX_FILE_SIZE + 1) @@ (SrcB :> SmallSize),
      (SrcA :> MAX_FILE_SIZE + 1) @@ (SrcAWav :> MAX_FILE_SIZE + 1) }

InitRun ==
    /\ orig \in RunDirs
    /\ splits = EmptyDir
    /\ trans = EmptyDir
    /\ pc = "idle"
    /\ batch = <<>>
    /\ fi = 0
    /\ segs = <<>>
    /\ si = 0
    /\ calls = NoCalls
    /\ log = <<>>
    /\ runs = 0
    /\ ret = [op |-> "none"]

\* main is inside process_file, at a file or at a segment
Handling == pc \in {"file", "seg"}

\* every external call returns: weak fairness of the steps of process_file,
\* WF_vars(Handling /\ Next), written with their enabling condition Handling
Returns == []<>(~Handling) \/ []<><<Handling>>_vars

SpecRun == InitRun /\ [][Next]_vars /\ Returns

\* the remote calls of the run so far for one item, from the log's first p entries
RECURSIVE SttCallsFor(_, _)
SttCallsFor(name, p) ==
    IF p = 0 THEN 0
    ELSE SttCallsFor(name, p - 1)
         + (IF log[p].ev = "item" /\ log[p].name = name THEN log[p].stt ELSE 0)

RECURSIVE CleanupCallsFor(_, _)
CleanupCallsFor(name, p) ==
    IF p = 0 THEN 0
    ELSE CleanupCallsFor(name, p - 1)
         + (IF log[p].ev = "item" /\ log[p].name = name THEN log[p].cleanup ELSE 0)

HandledItems == {log[p].name : p \in {q \in 1..Len(log) : log[q].ev = "item"}}

\* C31: a run of main over a finite batch ends when every external call
\* returns: for each segment or unsplit file it makes at most 3
\* speech-to-text calls and at most 3 cleanup calls in one run, and after an
\* exhausted retry budget it goes on with the next item and reaches the merge.
C31_BoundedCallsReachMerge ==
    /\ [](\A name \in HandledItems :
             /\ SttCallsFor(name, Len(log)) <= 3
             /\ CleanupCallsFor(name, Len(log)) <= 3)
    /\ Handling ~> (pc = "merge")

\* the probe or the segmenter exited non-zero or ran into the timeout
ProbeBroke == ret.ext.probe.kind \in {"error", "timeout"}
SegmenterBroke == ret.ext.seg.kind \in {"error", "timeout"}

\* C32: within one split_audio call the probe and the segmenter are each
\* invoked at most once: a non-zero exit or a timeout of either tool is not
\* retried and makes the split fail for that file.
C32_ToolsInvokedOnce ==
    ret.op = "split_audio" =>
       /\ calls.probe <= 1
       /\ calls.segmenter <= 1
       /\ (calls.probe = 1 /\ ProbeBroke) =>
             /\ ret.status = "raised"
             /\ ret.error = IF ret.ext.probe.kind = "error" THEN "COMMAND_ERROR"
                            ELSE "TIMEOUT_ERROR"
             /\ calls.segmenter = 0
       /\ (calls.segmenter = 1 /\ SegmenterBroke) =>
             /\ ret.status = "raised"
             /\ ret.error = IF ret.ext.seg.kind = "error" THEN "SPLIT_ERROR"
                            ELSE "TIMEOUT_ERROR"
       /\ (ProbeBroke \/ SegmenterBroke) =>
             (ret.status = "ok" => calls.probe = 0 /\ calls.segmenter = 0)

\* the segmenter ran into the timeout after the probe had answered
C32_Witness ==
    /\ ret.op = "split_audio"
    /\ ret.ext.seg.kind = "timeout"
    /\ calls.probe = 1
    /\ calls.segmenter = 1
    /\ ret.status = "raised"

\* the segmenter ran, exited with success and left no file of the template
NothingProduced ==
    /\ calls.segmenter = 1
    /\ ret.ext.seg.kind = "ok"
    /\ ret.ext.seg.sizes = <<>>

\* C33: split_audio never returns an empty segment list: when the segmenter
\* exits with success and no file of the naming template exists afterwards,
\* split_audio fails with the 'no split files were created' error, which is
\* another error than the one raised when the segmenter itself fails.
C33_NoEmptySegmentList ==
    ret.op = "split_audio" =>
       /\ ret.status = "ok" => ret.result # <<>>
       /\ NothingProduced =>
             /\ ret.status = "raised"
             /\ ret.error = "NO_SPLITS_ERROR"
       /\ ret.error = "NO_SPLITS_ERROR" => NothingProduced
       /\ (calls.segmenter = 1 /\ ret.ext.seg.kind = "error") =>
             /\ ret.status = "raised"
             /\ ret.error = "SPLIT_ERROR"

\* a.wav without segments: the segmenter succeeds and writes nothing
C33_Witness ==
    /\ ret.op = "split_audio"
    /\ ret.file = SrcAWav
    /\ NothingProduced
    /\ SplitGlob(splits, Stem(ret.file)) = {}
    /\ ret.error = "NO_SPLITS_ERROR"

\* the probe answered and split_audio looked at its output
Validated == ret.op = "split_audio" /\ calls.probe = 1 /\ ret.ext.probe.kind = "info"

\* the bit rate is missing (no key, no stream, null), not a number or not
\* positive; the duration likewise
BitRateInvalid(probe) ==
    \/ probe.bit_rate.tag \in {"missing", "nostreams", "null", "nonnumeric"}
    \/ probe.bit_rate.tag = "int" /\ probe.bit_rate.val <= 0

DurationInvalid(probe) ==
    \/ probe.duration.tag \in {"missing", "null", "nonnumeric"}
    \/ probe.duration.tag = "num" /\ probe.duration.val <= 0

\* C34: whenever metadata validation fails in split_audio the error names
\* the invalid field: a bit-rate error if the bit rate is missing, not a
\* number or not positive, otherwise a duration error if the duration is
\* missing, not a number or not positive, for every shape of probe output
\* (absent keys, empty stream list, null values); a missing or non-positive
\* duration fails the split although the formula does not use it.
C34_ValidationNamesField ==
    Validated =>
       /\ BitRateInvalid(ret.ext.probe) =>
             /\ ret.status = "raised"
             /\ ret.error = "INVALID_BITRATE_ERROR"
       /\ (~BitRateInvalid(ret.ext.probe) /\ DurationInvalid(ret.ext.probe)) =>
             /\ ret.status = "raised"
             /\ ret.error = "INVALID_DURATION_ERROR"
             /\ calls.segmenter = 0

(***************************************************************************)
(* SpecProcess: process_file called on any path, present or not, of a      *)
(* supported format or not.                                                *)
(***************************************************************************)
\* data/original before the calls
ProcessDirs ==
    { (SrcA :> SmallSize) @@ (SrcNote :> SmallSize) @@ (SrcNoExt :> SmallSize),
      (SrcA :> MAX_FILE_SIZE + 1) @@ (SrcAM4a :> MAX_FILE_SIZE + 1) }

\* the paths process_file is called on
ProcessPaths == {SrcA, SrcB, SrcNote, SrcAM4a, SrcNoExt}

InitProcess ==
    /\ orig \in ProcessDirs
    /\ splits = EmptyDir
    /\ trans = EmptyDir
    /\ pc = "idle"
    /\ batch = <<>>
    /\ fi = 0
    /\ segs = <<>>
    /\ si = 0
    /\ calls = NoCalls
    /\ log = <<>>
    /\ runs = 0
    /\ ret = [op |-> "none"]

\* a caller hands one path to process_file
ProcessFileCall ==
    /\ pc \in {"idle", "merge", "rejected"}
    /\ runs < MaxRuns
    /\ \E file_path \in ProcessPaths : batch' = <<file_path>>
    /\ fi' = 1
    /\ pc' = "file"
    /\ runs' = runs + 1
    /\ log' = <<>>
    /\ segs' = <<>>
    /\ si' = 0
    /\ calls' = NoCalls
    /\ ret' = [op |-> "call"]
    /\ UNCHANGED <<orig, splits, trans>>

\* process_file, lines 34-38: the two raises
ProcessFileReject ==
    /\ pc = "file"
    /\ ProcessFileEntry(orig, batch[fi]) # "ok"
    /\ ret' = [op |-> "process_file", name |-> batch[fi], status |-> "raised",
               error |-> ProcessFileEntry(orig, batch[fi])]
    /\ calls' = NoCalls
    /\ pc' = "rejected"
    /\ log' = Append(log, [ev |-> "process_file", name |-> batch[fi]])
    /\ UNCHANGED <<orig, splits, trans, batch, fi, segs, si, runs>>

NextProcess ==
    \/ ProcessFileCall
    \/ ProcessFileReject
    \/ ProcessFileSplit
    \/ ProcessFileUnsplit
    \/ ProcessSegment

SpecProcess == InitProcess /\ [][NextProcess]_vars

\* the path handed to process_file does not exist or has an extension
\* outside the whitelist
Unacceptable(file_path) ==
    \/ file_path \notin DOMAIN orig
    \/ Lower(Suffix(file_path)) \notin SUPPORTED_FORMATS

\* C35: process_file on a path that does not exist or whose extension is
\* outside the supported formats raises before any processing: no probe,
\* segmenter, speech-to-text or cleanup call is made and no file is created
\* or changed.
C35_RejectedBeforeProcessing ==
    [][ (pc = "file" /\ Unacceptable(batch[fi])) =>
           /\ ret'.op = "process_file"
           /\ ret'.status = "raised"
           /\ ret'.error = IF batch[fi] \notin DOMAIN orig THEN "FileNotFoundError"
                           ELSE "ValueError"
           /\ calls' = NoCalls
           /\ orig' = orig /\ splits' = splits /\ trans' = trans ]_vars

\* a.m4a above the size limit lies in data/original, segments of a.mp3 exist
\* from an earlier call, and process_file(a.m4a) is rejected for its format
C35_Witness ==
    /\ ret.op = "process_file"
    /\ ret.name = SrcAM4a
    /\ SrcAM4a \in DOMAIN orig
    /\ ret.error = "ValueError"
    /\ splits # EmptyDir
    /\ calls = NoCalls

(***************************************************************************)
(* SpecNested: merge_transcripts on a transcript directory that holds a    *)
(* subdirectory s.  A path with "/" is a file below the subdirectory.      *)
(***************************************************************************)
SLASH == <<"/">>
SubDir == <<"s">> \o SLASH

IsNested(path) == \E i \in 1..Len(path) : path[i] = "/"

\* Path.glob of a pattern without "/" or "**" matches the pattern against the
\* entries of the directory itself: the files merge_transcripts can select
Iterdir(tree) == [n \in {p \in DOMAIN tree : ~IsNested(p)} |-> tree[n]]

TopNames ==
    { NameA \o P000 \o DOT_TXT,                   \* a_part000.txt
      NameA \o P001 \o DOT_TXT,                   \* a_part001.txt
      NameA \o UPART \o <<"1">> \o DOT_TXT,       \* a_part1.txt
      NameA \o P000 \o DOT_CLEAN_TXT }            \* a_part000.clean.txt

NestedNames ==
    { SubDir \o NameA \o P000 \o DOT_TXT,         \* s/a_part000.txt
      SubDir \o NameA \o P002 \o DOT_TXT,         \* s/a_part002.txt
      SubDir \o NameA \o P000 \o DOT_CLEAN_TXT }  \* s/a_part000.clean.txt

\* every file holds its own path as text, or white space
Trees ==
    UNION {{[n \in S |-> IF n \in W THEN <<" ">> ELSE Payload(n)] : W \in SUBSET S}
           : S \in SUBSET (TopNames \cup NestedNames)}

InitNested ==
    /\ trans \in Trees
    /\ orig = EmptyDir
    /\ splits = EmptyDir
    /\ pc = "dir"
    /\ batch = <<>>
    /\ fi = 0
    /\ segs = <<>>
    /\ si = 0
    /\ calls = NoCalls
    /\ log = <<>>
    /\ runs = 0
    /\ ret = [op |-> "none"]

\* merge_transcripts(): it selects among the entries of the directory and
\* writes the merged documents into the directory
NestedMerge ==
    /\ pc = "dir"
    /\ runs < MaxRuns
    /\ \E flat \in MergeTranscripts(Iterdir(trans)) :
          trans' = [p \in DOMAIN flat \cup DOMAIN trans |->
                        IF p \in DOMAIN flat THEN flat[p] ELSE trans[p]]
    /\ ret' = [op |-> "merge", before |-> trans]
    /\ runs' = runs + 1
    /\ UNCHANGED <<orig, splits, pc, batch, fi, segs, si, calls, log>>

NextNested == NestedMerge

SpecNested == InitNested /\ [][NextNested]_vars

\* the files below the subdirectory
NestedFiles(tree) == {p \in DOMAIN tree : IsNested(p)}

\* no file below the subdirectory is created, changed or quoted in a
\* document the merge wrote
NestedNeverRead ==
    /\ NestedFiles(trans) = NestedFiles(ret.before)
    /\ \A p \in NestedFiles(trans) : trans[p] = ret.before[p]
    /\ \A doc \in WrittenByMerge :
          /\ ~IsNested(doc)
          /\ \A p \in NestedFiles(ret.before) :
                Strip(ret.before[p]) # <<>> => ~Contains(trans[doc], Strip(ret.before[p]))

\* the text of at most one part file per part index is in the document of a
\* series' variant
OneParagraphPerIndex ==
    \A clean \in BOOLEAN : \A series \in SeriesNames(Iterdir(ret.before)) :
        (series \o Ext(clean)) \in WrittenByMerge =>
            \A n1, n2 \in {n \in DOMAIN Iterdir(ret.before) : IsPartOf(n, series, clean)} :
                (/\ n1 # n2
                 /\ PartIndex(n1, series, clean) = PartIndex(n2, series, clean)
                 /\ Strip(ret.before[n1]) # <<>>
                 /\ Strip(ret.before[n2]) # <<>>) =>
                     ~(/\ Contains(trans[series \o Ext(clean)], Strip(ret.before[n1]))
                       /\ Contains(trans[series \o Ext(clean)], Strip(ret.before[n2])))

\* C36: merge_transcripts reads only files directly in the transcript
\* directory: a part file of the same name in a subdirectory is never read,
\* so a part index contributes at most one paragraph per variant and nested
\* duplicates never appear in a merged document.
C36_TopLevelOnly ==
    ret.op = "merge" => (NestedNeverRead /\ OneParagraphPerIndex)

\* the name has no "part" followed by a digit
NoPartNumber(name) ==
    ~\E i \in 1..Len(name) :
        /\ i + 4 <= Len(name)
        /\ SubSeq(name, i, i + 3) = PART
        /\ name[i + 4] \in Digits

\* where the text p starts in doc (0: nowhere)
PositionIn(doc, p) ==
    LET at == {i \in 1..Len(doc) :
                  i + Len(p) - 1 <= Len(doc) /\ SubSeq(doc, i, i + Len(p) - 1) = p}
    IN  IF at = {} THEN 0 ELSE CHOOSE i \in at : \A j \in at : i <= j

\* the files of the directory before the merge that were selected for the
\* document of a series' variant and have text
SelectedWithText(series, clean) ==
    {n \in SelectedFiles(ret.before, series, clean) : Strip(ret.before[n]) # <<>>}

\* C37: a file selected for a series' merge whose name has no parseable
\* part number does not make merge_transcripts fail: it counts as index -1
\* and its text comes before the text of every file with a parsed part index
\* in the merged document.
C37_UnparsedSortsFirst ==
    ret.op = "merge" =>
       \A clean \in BOOLEAN : \A series \in SeriesNames(ret.before) :
          (series \o Ext(clean)) \in WrittenByMerge =>
             \A n \in SelectedWithText(series, clean) :
                NoPartNumber(n) =>
                   /\ GetPartNumber(n) = -1
                   /\ PositionIn(trans[series \o Ext(clean)], Strip(ret.before[n])) > 0
                   /\ \A m \in SelectedWithText(series, clean) :
                         ~NoPartNumber(m) =>
                            PositionIn(trans[series \o Ext(clean)], Strip(ret.before[n]))
                               < PositionIn(trans[series \o Ext(clean)], Strip(ret.before[m]))

\* a_partx.txt was merged into a.txt ahead of a_part000.txt
C37_Witness ==
    /\ ret.op = "merge"
    /\ NameA \o UPART \o <<"x">> \o DOT_TXT \in DOMAIN ret.before
    /\ NameA \o P000 \o DOT_TXT \in DOMAIN ret.before
    /\ NameA \o DOT_TXT \in WrittenByMerge
    /\ trans[NameA \o DOT_TXT] =
          NameA \o UPART \o <<"x">> \o DOT_TXT \o SEP \o NameA \o P000 \o DOT_TXT

(***************************************************************************)
(* SpecSegments: get_existing_splits on segment files the segmenter wrote  *)
(* from the template a_part%03d.mp3.  The directory holds the files of a   *)
(* few of the indices 0..1000; the order of two files in the sorted list   *)
(* of all of them is their order in the sorted list of the few.            *)
(***************************************************************************)
SegmentIndices == {0, 1, 9, 10, 99, 100, 101, 999, 1000}

SegmentFile(i) == NameA \o UPART \o Format03(i) \o DOT_MP3

SegmentDirs ==
    {[n \in {SegmentFile(i) : i \in S} |-> SmallSize] : S \in SUBSET SegmentIndices}

InitSegments ==
    /\ orig = (SrcA :> MAX_FILE_SIZE + 1)
    /\ splits \in SegmentDirs
    /\ trans = EmptyDir
    /\ pc = "list"
    /\ batch = <<>>
    /\ fi = 0
    /\ segs = <<>>
    /\ si = 0
    /\ calls = NoCalls
    /\ log = <<>>
    /\ runs = 0
    /\ ret = [op |-> "none"]

\* get_existing_splits(a.mp3, data/splits); process_file handles the
\* segments in the order of the returned list
ListSegments ==
    /\ pc = "list"
    /\ segs' = GetExistingSplits(splits, SrcA)
    /\ ret' = [op |-> "get_existing_splits", result |-> GetExistingSplits(splits, SrcA)]
    /\ pc' = "listed"
    /\ UNCHANGED <<orig, splits, trans, batch, fi, si, calls, log, runs>>

NextSegments == ListSegments

SpecSegments == InitSegments /\ [][NextSegments]_vars

\* the index the segmenter gave the file
SegmentIndex(name) ==
    ParseInt(SubSeq(name, Len(NameA) + Len(UPART) + 1, Len(name) - Len(DOT_MP3)))

\* C38: for every set of segment files the segmenter can produce from the
\* <stem>_part%03d template, the lexicographically sorted list returned by
\* get_existing_splits / split_audio is in ascending segment-index order,
\* for any number of segments.
C38_SortedIsIndexOrder ==
    ret.op = "get_existing_splits" =>
       /\ Len(ret.result) = Cardinality(DOMAIN splits)
       /\ \A i, j \in 1..Len(ret.result) :
             i < j => SegmentIndex(ret.result[i]) < SegmentIndex(ret.result[j])

====
